---- MODULE Spec2Model ----
(***************************************************************************)
(* A model of the policy-manager evaluation engine: PolicyResult, the      *)
(* built-in leaf policies the chain needs (CustomPolicy, ManualReview-     *)
(* Policy, AccessGroupPolicy), the composite combinators (AllOf, AnyOf,    *)
(* Not), the PolicyFactory, the PolicyManager chain evaluator and the      *)
(* runner's Executor.                                                      *)
(*                                                                         *)
(* Python strings that the code builds by formatting (names, reasons,      *)
(* namespaces, keys) are sequences of string pieces, so that f-strings     *)
(* and joins are concatenations: "not(" + name + ")" is                    *)
(* <<"not(">> \o name \o <<")">>.  A dict is a function on its key set.    *)
(***************************************************************************)
EXTENDS Integers, Sequences, FiniteSets, TLC

VARIABLES
    policies,   \* PolicyManager._policies of the shared manager
    store,      \* the contents of the manager's Store: (namespace, key) -> value
    uuid,       \* how many uuid4() values have been drawn so far
    call,       \* the check_pre/post_exec_policies call in progress on the manager
    added,      \* history: the policies passed to add_policy, in call order
    run,        \* the Executor.execute call of the runner
    backend,    \* a Store backend and the callers awaiting its operations
    limiter,    \* a RateLimitPolicy, its clock and the pre-checks in progress
    group,      \* a request context walked through AccessGroupPolicy pre-checks
    member,    \* a membership policy, its store and the calls made on it
    factory,   \* the class registry of PolicyFactory and the calls made on it
    review      \* the manual-review policy of SpecReview, its store and its last call

vars == <<policies, store, uuid, call, added, run, backend, limiter, group, member, factory, review>>

------------------------------------------------------------------------------
(* Bounds *)

MaxPolicies == 3    \* add_policy calls on the shared manager
MaxUuid == 1        \* uuid4() values drawn
MaxOps == 3         \* Store operations awaited, and restarts of their process
MaxTime == 3        \* seconds the injected clock advances
MaxChecks == 4      \* rate-limiter pre-checks begun
MaxEvaluations == 3 \* access-group pre-checks on one context
MaxMemberOps == 5   \* calls on a membership policy, and restarts of its process
MaxRegisters == 1   \* PolicyFactory.register calls
MaxConfigs == 3     \* policy configurations in one create_all call
MaxReviewOps == 4   \* calls on the manual-review policy

------------------------------------------------------------------------------
(* Strings and dicts *)

EmptyStr == <<>>
EmptyDict == [k \in {} |-> TRUE]
None == [none |-> TRUE]

\* An optional field or attribute: absent, or a value
Nothing == <<>>
Some(x) == <<x>>
Value(option) == option[1]

DictSet(d, k, v) == [x \in (DOMAIN d) \cup {k} |-> IF x = k THEN v ELSE d[x]]
DictGet(d, k, default) == IF k \in DOMAIN d THEN d[k] ELSE default

RECURSIVE Join(_, _)
Join(sep, strs) ==
    IF strs = <<>> THEN EmptyStr
    ELSE IF Len(strs) = 1 THEN Head(strs)
    ELSE Head(strs) \o sep \o Join(sep, Tail(strs))

Digits == <<"0", "1", "2", "3", "4", "5", "6", "7", "8", "9">>
RECURSIVE Str(_)
Str(n) == IF n < 10 THEN <<Digits[n + 1]>> ELSE Str(n \div 10) \o <<Digits[(n % 10) + 1]>>

RECURSIVE DedupeLast(_)
DedupeLast(xs) ==
    IF xs = <<>> THEN <<>>
    ELSE LET back == DedupeLast(Tail(xs))
         IN IF \E i \in 1..Len(back) : back[i] = Head(xs) THEN back ELSE <<Head(xs)>> \o back

\* list(dict.fromkeys(xs)): drop repeats, the first occurrence wins
RECURSIVE Dedupe(_)
Dedupe(xs) ==
    IF xs = <<>> THEN <<>>
    ELSE LET front == Dedupe(SubSeq(xs, 1, Len(xs) - 1))
             x == xs[Len(xs)]
         IN IF \E i \in 1..Len(front) : front[i] = x THEN front ELSE Append(front, x)

------------------------------------------------------------------------------
(* PolicyResult *)

PolicyResult(allowed, policy_name, reason, pending, metadata) ==
    [allowed |-> allowed, policy_name |-> policy_name, reason |-> reason,
     pending |-> pending, metadata |-> metadata]

PolicyResultAllow(policy_name) ==
    PolicyResult(TRUE, policy_name, EmptyStr, FALSE, EmptyDict)

PolicyResultDeny(policy_name, reason, meta) ==
    PolicyResult(FALSE, policy_name, reason, FALSE, meta)

PolicyResultPendAllowed(policy_name, reason, meta) ==
    PolicyResult(TRUE, policy_name, reason, TRUE, meta)

PolicyResultPend(policy_name, reason, meta) ==
    PolicyResult(FALSE, policy_name, reason, TRUE, meta)

------------------------------------------------------------------------------
(* Store (InMemoryStore): a dict keyed by (namespace, key) *)

EmptyStore == [k \in {} |-> TRUE]
StoreSet(st, namespace, key, value) ==
    [x \in (DOMAIN st) \cup {<<namespace, key>>} |->
        IF x = <<namespace, key>> THEN value ELSE st[x]]
StoreGet(st, namespace, key) ==
    IF <<namespace, key>> \in DOMAIN st THEN st[<<namespace, key>>] ELSE [none |-> TRUE]

------------------------------------------------------------------------------
(* RequestContext *)

RequestContext(user_id, input, output, metadata) ==
    [user_id |-> user_id, input |-> input, output |-> output, metadata |-> metadata]

------------------------------------------------------------------------------
(* Policy constructors.  A policy instance is a record of its fields;      *)
(* instances are told apart by name.                                       *)

CustomPolicy(name, phase, check, deny_reason) ==
    [type |-> "custom", name |-> name, phase |-> phase, check |-> check,
     deny_reason |-> deny_reason]

ManualReviewPolicy(name, review_callback) ==
    [type |-> "manual_review", name |-> name, review_cb |-> review_callback]

AccessGroupPolicy(name, owner, users, documents) ==
    [type |-> "access_group", name |-> name, owner |-> owner, users |-> users,
     documents |-> documents]

PolicyNames(ps) == [i \in 1..Len(ps) |-> ps[i].name]

AllOf(ps, name) ==
    [type |-> "all_of",
     name |-> IF name # EmptyStr THEN name
              ELSE <<"all_of(">> \o Join(<<",">>, PolicyNames(ps)) \o <<")">>,
     policies |-> ps]

AnyOf(ps, name) ==
    [type |-> "any_of",
     name |-> IF name # EmptyStr THEN name
              ELSE <<"any_of(">> \o Join(<<",">>, PolicyNames(ps)) \o <<")">>,
     policies |-> ps]

Not(policy, name, deny_reason) ==
    [type |-> "not",
     name |-> IF name # EmptyStr THEN name ELSE <<"not(">> \o policy.name \o <<")">>,
     policy |-> policy,
     deny_reason |-> IF deny_reason # EmptyStr THEN deny_reason
                     ELSE <<"Inverted policy '">> \o policy.name
                              \o <<"' passed (expected denial)">>]

------------------------------------------------------------------------------
(* Policy evaluation.  A phase method runs in an environment               *)
(*   e = [context, store, uuid, log]                                       *)
(* (the RequestContext it is given, the shared store, the uuid4 values     *)
(* drawn so far, and the log of phase methods entered: the side-effect     *)
(* counter of the tests) and returns [result, env].                        *)

Env(context, st, n, log) == [context |-> context, store |-> st, uuid |-> n, log |-> log]
Returns(result, e) == [result |-> result, env |-> e]
Enter(p, method, e) == [e EXCEPT !.log = Append(@, <<p.name, method>>)]

\* An exception raised, or a value returned
Raise(type, message) == [raised |-> TRUE, type |-> type, message |-> message]
Ok(value) == [raised |-> FALSE, value |-> value]
\* What a phase method gave is an exception, not a PolicyResult
Thrown(result) == "raised" \in DOMAIN result

\* The callables given to CustomPolicy(check=...): the lambdas of the tests.
\*   always   lambda c: True
\*   never    lambda c: False
\*   enrich   c.metadata["enriched"] = True; return True
\*   enriched return c.metadata.get("enriched", False)
\* A check that came as JSON text is a str: calling it raises TypeError.
CheckFns == {"always", "never", "enrich", "enriched"}

CallCheck(check, context) ==
    CASE check = "always" -> [value |-> TRUE, context |-> context]
      [] check = "never" -> [value |-> FALSE, context |-> context]
      [] check = "enrich" ->
            [value |-> TRUE,
             context |-> [context EXCEPT !.metadata = DictSet(@, "enriched", TRUE)]]
      [] check = "enriched" ->
            [value |-> DictGet(context.metadata, "enriched", FALSE), context |-> context]
      [] check = "text" -> Raise("TypeError", <<"'str' object is not callable">>)

CustomRunCheck(p, e) ==
    LET ran == CallCheck(p.check, e.context)
        e1 == [e EXCEPT !.context = ran.context]
    IN IF Thrown(ran) THEN Returns(ran, e)
       ELSE IF ran.value THEN Returns(PolicyResultAllow(p.name), e1)
       ELSE Returns(PolicyResultDeny(p.name, p.deny_reason, EmptyDict), e1)

CustomPreExecute(p, e) ==
    IF p.phase \in {"pre", "both"} THEN CustomRunCheck(p, e)
    ELSE Returns(PolicyResultAllow(p.name), e)

CustomPostExecute(p, e) ==
    IF p.phase \in {"post", "both"} THEN CustomRunCheck(p, e)
    ELSE Returns(PolicyResultAllow(p.name), e)

\* uuid.uuid4().hex[:12]: the n-th value drawn is a string no earlier draw gave
Uuid4(n) == <<"uuid-">> \o Str(n)

Namespace(p) == <<p.type, ":">> \o p.name

\* The review callbacks: none, one that answers {"approved": True}, one that
\* answers {"approved": False}.
ReviewCallbacks == {"none", "approve", "reject"}

ManualReviewPostExecute(p, e) ==
    LET review_id == Uuid4(e.uuid + 1)
        payload == [review_id |-> review_id, user_id |-> e.context.user_id,
                    input |-> e.context.input, output |-> e.context.output,
                    status |-> "pending"]
        e1 == [e EXCEPT !.uuid = @ + 1]
    IN IF p.review_cb # "none" /\ p.review_cb = "approve"
       THEN Returns(PolicyResultAllow(p.name),
                    [e1 EXCEPT !.store = StoreSet(@, Namespace(p), review_id,
                                                  [payload EXCEPT !.status = "approved"])])
       ELSE Returns(PolicyResultPend(p.name, <<"Response held for manual review">>,
                                     [k \in {"review_id"} |-> review_id]),
                    [e1 EXCEPT !.store = StoreSet(@, Namespace(p), review_id, payload)])

\* sorted(self._users): the users of the set in ascending order
UserOrder == <<"alice", "bob", "eve">>
RECURSIVE SortedFrom(_, _)
SortedFrom(users, i) ==
    IF i > Len(UserOrder) THEN <<>>
    ELSE (IF UserOrder[i] \in users THEN <<UserOrder[i]>> ELSE <<>>)
             \o SortedFrom(users, i + 1)
Sorted(users) == SortedFrom(users, 1)

AccessGroupSyncToStore(p, st) ==
    StoreSet(st, Namespace(p), <<"_config">>,
             [owner |-> p.owner, users |-> Sorted(p.users), documents |-> p.documents])

PublishAsInput(context, merged) ==
    [context EXCEPT !.input = DictSet(@, "resolved_documents", merged)]

\* context.metadata["resolved_documents"] = merged
Publish(context, merged) ==
    [context EXCEPT !.metadata = DictSet(@, "resolved_documents", merged)]

\* A registered access group is synced by setup, so pre_execute does not reload.
AccessGroupPreExecute(p, e) ==
    IF e.context.user_id \notin p.users
    THEN Returns(PolicyResultDeny(p.name,
                    <<"User '", e.context.user_id,
                      "' is not a member of access group '">> \o p.name \o <<"'">>,
                    EmptyDict), e)
    ELSE LET existing == DictGet(e.context.metadata, "resolved_documents", <<>>)
             merged == Dedupe(existing \o p.documents)
         IN Returns(PolicyResultAllow(p.name),
                    [e EXCEPT !.context = Publish(@, merged)])

PreExecute == "pre_execute"
PostExecute == "post_execute"
Methods == {PreExecute, PostExecute}

NotInvertPending(p, result) ==
    IF result.allowed THEN PolicyResultDeny(p.name, p.deny_reason, EmptyDict)
    ELSE IF result.pending THEN result
    ELSE PolicyResultAllow(p.name)

NotInvert(p, result) ==
    IF result.allowed THEN PolicyResultDeny(p.name, p.deny_reason, EmptyDict)
    ELSE PolicyResultAllow(p.name)

AnyOfOwnDenial(p, last_denial) ==
    IF last_denial # <<>>
    THEN PolicyResultDeny(p.name, <<"All child policies denied">>, EmptyDict)
    ELSE PolicyResultDeny(p.name, <<"No child policies configured">>, EmptyDict)

\* AnyOf._evaluate: return last_denial or PolicyResult.deny(self.name, "No child
\* policies configured")
AnyOfNoneAllowed(p, last_denial) ==
    IF last_denial # <<>> THEN last_denial[1]
    ELSE PolicyResultDeny(p.name, <<"No child policies configured">>, EmptyDict)

RECURSIVE PolicyExecute(_, _, _)
RECURSIVE AllOfExecute(_, _, _, _)
RECURSIVE AnyOfEvaluate(_, _, _, _, _)

AllOfStopsOnDenialOnly(result) == ~result.allowed /\ ~result.pending

\* AllOf: if not result.allowed: return result
AllOfStops(result) == ~result.allowed

\* AllOf.pre_execute / post_execute: the loop from child i on
AllOfExecute(p, method, e, i) ==
    IF i > Len(p.policies) THEN Returns(PolicyResultAllow(p.name), e)
    ELSE LET r == PolicyExecute(p.policies[i], method, e)
         IN IF Thrown(r.result) THEN r
            ELSE IF AllOfStops(r.result) THEN r
            ELSE AllOfExecute(p, method, r.env, i + 1)

\* AnyOf._evaluate: the loop from child i on; last_denial is a sequence of at
\* most one result (None is the empty one)
AnyOfEvaluate(p, method, e, i, last_denial) ==
    IF i > Len(p.policies)
    THEN Returns(AnyOfNoneAllowed(p, last_denial), e)
    ELSE LET r == PolicyExecute(p.policies[i], method, e)
         IN IF Thrown(r.result) THEN r
            ELSE IF r.result.allowed THEN Returns(PolicyResultAllow(p.name), r.env)
            ELSE AnyOfEvaluate(p, method, r.env, i + 1, <<r.result>>)

NotExecute(p, method, e) ==
    LET r == PolicyExecute(p.policy, method, e)
    IN IF Thrown(r.result) THEN r ELSE Returns(NotInvert(p, r.result), r.env)

\* policy.pre_execute(context) / policy.post_execute(context), by class
PolicyExecute(p, method, e0) ==
    LET e == Enter(p, method, e0)
    IN CASE p.type = "custom" ->
                IF method = PreExecute THEN CustomPreExecute(p, e)
                ELSE CustomPostExecute(p, e)
         [] p.type = "manual_review" ->
                IF method = PreExecute THEN Returns(PolicyResultAllow(p.name), e)
                ELSE ManualReviewPostExecute(p, e)
         [] p.type = "access_group" ->
                IF method = PreExecute THEN AccessGroupPreExecute(p, e)
                ELSE Returns(PolicyResultAllow(p.name), e)
         [] p.type = "all_of" -> AllOfExecute(p, method, e, 1)
         [] p.type = "any_of" -> AnyOfEvaluate(p, method, e, 1, <<>>)
         [] p.type = "not" -> NotExecute(p, method, e)
         [] OTHER -> Returns(PolicyResultAllow(p.name), e)

\* policy.setup(store): what it writes to the store
RECURSIVE PolicySetup(_, _)
RECURSIVE SetupAll(_, _, _)
SetupAll(ps, st, i) ==
    IF i > Len(ps) THEN st ELSE SetupAll(ps, PolicySetup(ps[i], st), i + 1)
PolicySetup(p, st) ==
    CASE p.type = "access_group" -> AccessGroupSyncToStore(p, st)
      [] p.type \in {"all_of", "any_of"} -> SetupAll(p.policies, st, 1)
      [] p.type = "not" -> PolicySetup(p.policy, st)
      [] OTHER -> st

\* A policy class of the caller whose setup raises (it keeps the phase
\* methods of Policy, which allow)
BrokenPolicy(name) == [type |-> "broken", name |-> name]

\* await policy.setup(store): whether it raised, and the store it leaves; a
\* composite sets its children up in order and stops at the one that raises
RECURSIVE SetupOutcome(_, _)
RECURSIVE SetupOutcomeAll(_, _, _)
SetupOutcomeAll(ps, st, i) ==
    IF i > Len(ps) THEN [raised |-> FALSE, store |-> st]
    ELSE LET r == SetupOutcome(ps[i], st)
         IN IF r.raised THEN r ELSE SetupOutcomeAll(ps, r.store, i + 1)
SetupOutcome(p, st) ==
    CASE p.type = "broken" -> [raised |-> TRUE, store |-> st]
      [] p.type \in {"all_of", "any_of"} -> SetupOutcomeAll(p.policies, st, 1)
      [] p.type = "not" -> SetupOutcome(p.policy, st)
      [] OTHER -> [raised |-> FALSE, store |-> PolicySetup(p, st)]

\* policy.setup(store): the instances whose setup it invokes, by name, in
\* the order of the invocations (a composite sets itself up, then each child)
RECURSIVE SetupCalls(_)
RECURSIVE SetupCallsAll(_, _)
SetupCallsAll(ps, i) ==
    IF i > Len(ps) THEN <<>> ELSE SetupCalls(ps[i]) \o SetupCallsAll(ps, i + 1)
SetupCalls(p) ==
    CASE p.type \in {"all_of", "any_of"} -> <<p.name>> \o SetupCallsAll(p.policies, 1)
      [] p.type = "not" -> <<p.name>> \o SetupCalls(p.policy)
      [] OTHER -> <<p.name>>

------------------------------------------------------------------------------
(* PolicyFactory *)


PolicyConfigSchema(name, type, config) == [name |-> name, type |-> type, config |-> config]

CompositeTypes == {"all_of", "any_of", "not"}
Registry == {"access_group", "rate_limit", "token_limit", "prompt_filter", "attribution",
             "manual_review", "transaction", "custom"}

\* policy_class(name=config.name, **config.config): a keyword the constructor
\* does not take, or a missing required one, is a TypeError
Instantiate(type, name, config) ==
    CASE type = "access_group" ->
            IF DOMAIN config \subseteq {"owner", "users", "documents"}
            THEN Ok(AccessGroupPolicy(name, DictGet(config, "owner", EmptyStr),
                                      DictGet(config, "users", {}),
                                      DictGet(config, "documents", <<>>)))
            ELSE Raise("TypeError", <<"unexpected keyword argument">>)
      [] type = "manual_review" ->
            IF DOMAIN config \subseteq {"review_callback"}
            THEN Ok(ManualReviewPolicy(name, DictGet(config, "review_callback", "none")))
            ELSE Raise("TypeError", <<"unexpected keyword argument">>)
      [] type = "custom" ->
            IF DOMAIN config \subseteq {"phase", "check", "deny_reason"}
               /\ "check" \in DOMAIN config
            THEN Ok(CustomPolicy(name, DictGet(config, "phase", "pre"), config.check,
                                 DictGet(config, "deny_reason",
                                         <<"Custom policy check failed">>)))
            ELSE Raise("TypeError", <<"bad keyword arguments">>)

FactoryResolveLenient(instances, name, referrer) ==
    IF name \notin DOMAIN instances THEN Ok(CustomPolicy(name, "pre", "always", EmptyStr))
    ELSE Ok(instances[name])

FactoryResolve(instances, name, referrer) ==
    IF name \notin DOMAIN instances
    THEN Raise("PolicyFactoryError",
               <<"Policy '">> \o referrer \o <<"' references '">> \o name
                   \o <<"', but '">> \o name \o <<"' is not defined. Ensure '">> \o name
                   \o <<"' is defined before '">> \o referrer
                   \o <<"' in the policies list.">>)
    ELSE Ok(instances[name])

\* [self._resolve(name, config.name) for name in child_names]: the first
\* reference that does not resolve raises
RECURSIVE ResolveAll(_, _, _, _)
ResolveAll(instances, child_names, referrer, i) ==
    IF i > Len(child_names) THEN Ok(<<>>)
    ELSE LET c == FactoryResolve(instances, child_names[i], referrer)
         IN IF c.raised THEN c
            ELSE LET rest == ResolveAll(instances, child_names, referrer, i + 1)
                 IN IF rest.raised THEN rest ELSE Ok(<<c.value>> \o rest.value)

NotDefaultReasonGeneric(config) == DictGet(config.config, "deny_reason", EmptyStr)

NotDefaultReason(config) ==
    DictGet(config.config, "deny_reason", <<"Policy condition not met">>)

CreateComposite(config, instances) ==
    CASE config.type \in {"all_of", "any_of"} ->
            LET child_names == DictGet(config.config, "policies", <<>>)
            IN IF child_names = <<>>
               THEN Raise("PolicyFactoryError",
                          <<config.type, " policy '">> \o config.name
                              \o <<"' requires 'policies' list">>)
               ELSE LET children == ResolveAll(instances, child_names, config.name, 1)
                    IN IF children.raised THEN children
                       ELSE IF config.type = "all_of"
                            THEN Ok(AllOf(children.value, config.name))
                            ELSE Ok(AnyOf(children.value, config.name))
      [] config.type = "not" ->
            LET child_name == DictGet(config.config, "policy", EmptyStr)
            IN IF child_name = EmptyStr
               THEN Raise("PolicyFactoryError",
                          <<config.type, " policy '">> \o config.name
                              \o <<"' requires 'policy' reference">>)
               ELSE LET child == FactoryResolve(instances, child_name, config.name)
                    IN IF child.raised THEN child
                       ELSE Ok(Not(child.value, config.name, NotDefaultReason(config)))

\* The class registry: type name -> policy class.  A class is one of the
\* built-in ones, or one handed to register: its __name__, its _policy_type
\* attribute if it has one, and whether its constructor takes keywords
BuiltIn(type) == [builtin |-> TRUE, type |-> type]
PolicyClass(class, policy_type, takes_keywords) ==
    [builtin |-> FALSE, class |-> class, policy_type |-> policy_type,
     takes_keywords |-> takes_keywords]
InitialRegistry == [type \in Registry |-> BuiltIn(type)]

\* policy_class(name=config.name, **config.config) for the class found
InstantiateClass(cls, name, config) ==
    IF cls.builtin THEN Instantiate(cls.type, name, config)
    ELSE IF cls.takes_keywords THEN Ok([type |-> cls.class, name |-> name, config |-> config])
    ELSE Raise("TypeError", <<cls.class, "() takes no arguments">>)

\* ", ".join(sorted(self.registered_types()))
TypeOrder ==
    <<"access_group", "all_of", "any_of", "attribution", "custom", "manual_review", "named",
      "not", "prompt_filter", "rate_limit", "token_limit", "transaction">>
RECURSIVE SortedTypesFrom(_, _)
SortedTypesFrom(types, i) ==
    IF i > Len(TypeOrder) THEN <<>>
    ELSE (IF TypeOrder[i] \in types THEN <<<<TypeOrder[i]>>>> ELSE <<>>)
             \o SortedTypesFrom(types, i + 1)
AvailableTypes(registry) ==
    Join(<<", ">>, SortedTypesFrom((DOMAIN registry) \cup CompositeTypes, 1))

CreateOneWith(registry, config, instances) ==
    IF config.type \in CompositeTypes THEN CreateComposite(config, instances)
    ELSE IF config.type \notin DOMAIN registry
    THEN Raise("PolicyFactoryError",
               <<"Unknown policy type: '", config.type, "'. Available types: ">>
                   \o AvailableTypes(registry))
    ELSE InstantiateClass(registry[config.type], config.name, config.config)

CreateOne(config, instances) == CreateOneWith(InitialRegistry, config, instances)

\* create_all: the loop from config i on, with the policies made so far and
\* the instance cache
RECURSIVE CreateAllWith(_, _, _, _, _)
CreateAllWith(registry, configs, i, made, instances) ==
    IF i > Len(configs) THEN Ok(made)
    ELSE LET one == CreateOneWith(registry, configs[i], instances)
         IN IF one.raised
            THEN IF one.type = "PolicyFactoryError" THEN one
                 ELSE Raise("PolicyFactoryError",
                            <<"Failed to create policy '">> \o configs[i].name
                                \o <<"' of type '", configs[i].type, "': ">> \o one.message)
            ELSE CreateAllWith(registry, configs, i + 1, Append(made, one.value),
                               DictSet(instances, configs[i].name, one.value))

CreateAllFrom(configs, i, made, instances) ==
    CreateAllWith(InitialRegistry, configs, i, made, instances)

\* PolicyFactory().create_all(configs): a new factory has an empty cache
CreateAll(configs) == CreateAllFrom(configs, 1, <<>>, EmptyDict)

\* register: a class whose _policy_type is neither "base" nor the name it
\* is registered under is refused
ConflictsNever(policy_class, type_name) == FALSE
Conflicts(policy_class, type_name) ==
    /\ policy_class.policy_type # Nothing
    /\ Value(policy_class.policy_type) # "base"
    /\ Value(policy_class.policy_type) # type_name
Register(registry, type_name, policy_class) ==
    IF Conflicts(policy_class, type_name)
    THEN [registry |-> registry,
          outcome |-> Raise("ValueError",
                            <<"Policy ", policy_class.class, " has _policy_type='",
                              Value(policy_class.policy_type),
                              "' but is being registered as '", type_name, "'">>)]
    ELSE [registry |-> DictSet(registry, type_name, policy_class), outcome |-> Ok(None)]

------------------------------------------------------------------------------
(* What the callers of the shared manager construct and register.  A recipe *)
(* is how one policy is made: by a constructor call, or by                  *)
(* PolicyFactory().create_all(configs)[pick].                               *)

Users == {"alice", "bob"}

pa == CustomPolicy(<<"a">>, "both", "enrich", EmptyStr)
pb == CustomPolicy(<<"b">>, "both", "enriched", <<"not enriched">>)
pno == CustomPolicy(<<"no">>, "pre", "never", <<"nope">>)
pmr == ManualReviewPolicy(<<"mr">>, "none")
peng == AccessGroupPolicy(<<"eng">>, EmptyStr, {"alice"}, <<"doc_a">>)

Ctor(type, args, name, deny_reason) ==
    [via |-> "ctor", type |-> type, args |-> args, name |-> name,
     deny_reason |-> deny_reason]
ViaFactory(configs, pick) == [via |-> "factory", configs |-> configs, pick |-> pick]

engConfig ==
    PolicyConfigSchema(<<"eng">>, "access_group",
                       [users |-> {"alice"}, documents |-> <<"doc_a">>])
notConfig(name, config) == PolicyConfigSchema(name, "not", config)

Recipes ==
    { Ctor("leaf", <<pa>>, EmptyStr, EmptyStr),
      Ctor("leaf", <<pb>>, EmptyStr, EmptyStr),
      Ctor("leaf", <<pno>>, EmptyStr, EmptyStr),
      Ctor("leaf", <<pmr>>, EmptyStr, EmptyStr),
      Ctor("all_of", <<pa, peng, pmr>>, EmptyStr, EmptyStr),
      Ctor("all_of", <<>>, <<"all">>, EmptyStr),
      Ctor("any_of", <<pno, peng, pb>>, <<"any">>, EmptyStr),
      Ctor("any_of", <<pb, pmr>>, EmptyStr, EmptyStr),
      Ctor("any_of", <<>>, EmptyStr, EmptyStr),
      Ctor("not", <<pno>>, EmptyStr, EmptyStr),
      Ctor("not", <<pmr>>, <<"nm">>, <<"blocked">>),
      ViaFactory(<<engConfig, notConfig(<<"outsider">>, [policy |-> <<"eng">>])>>, 2),
      ViaFactory(<<engConfig,
                   notConfig(<<"guest">>, [policy |-> <<"eng">>,
                                           deny_reason |-> <<"members only">>])>>, 2) }

\* The policies of the callers whose setup may raise
pbroken == BrokenPolicy(<<"broken">>)
SetupRecipes ==
    { Ctor("leaf", <<pa>>, EmptyStr, EmptyStr),
      Ctor("leaf", <<peng>>, EmptyStr, EmptyStr),
      Ctor("leaf", <<pmr>>, EmptyStr, EmptyStr),
      Ctor("leaf", <<pbroken>>, EmptyStr, EmptyStr),
      Ctor("all_of", <<AccessGroupPolicy(<<"eng">>, EmptyStr, {"bob"}, <<>>), pbroken>>,
           EmptyStr, EmptyStr),
      Ctor("not", <<pbroken>>, EmptyStr, EmptyStr) }

\* The policy a recipe makes (Ok), or the exception it raises
Build(recipe) ==
    IF recipe.via = "factory"
    THEN LET made == CreateAll(recipe.configs)
         IN IF made.raised THEN made ELSE Ok(made.value[recipe.pick])
    ELSE CASE recipe.type = "leaf" -> Ok(recipe.args[1])
           [] recipe.type = "all_of" -> Ok(AllOf(recipe.args, recipe.name))
           [] recipe.type = "any_of" -> Ok(AnyOf(recipe.args, recipe.name))
           [] recipe.type = "not" ->
                 Ok(Not(recipe.args[1], recipe.name, recipe.deny_reason))

\* The contexts the callers pass: the handler's output is set before a post call
Contexts(method) ==
    { RequestContext(u, [query |-> <<"hello">>],
                     IF method = PostExecute THEN [result |-> <<"answer">>] ELSE EmptyDict,
                     EmptyDict) : u \in Users }

------------------------------------------------------------------------------
(* PolicyManager *)

IdleCall ==
    [pc |-> "idle", method |-> "", given |-> None, context |-> None, idx |-> 0,
     invocations |-> <<>>,
     trace |-> <<>>, result |-> None, seen |-> <<>>]

add_policy_front(chain, policy) == <<policy>> \o chain

\* self._policies.append(policy)
add_policy(chain, policy) == Append(chain, policy)

AppendedAnyway(chain, policy) == Append(chain, policy)

\* setup raised: the append is not reached
NotAppended(chain, policy) == chain

\* add_policy: await policy.setup(self._store), then append
AddPolicy(recipe) ==
    LET built == Build(recipe)
        setup == SetupOutcome(built.value, store)
    IN /\ Len(added) < MaxPolicies
       /\ ~built.raised
       /\ \A i \in 1..Len(policies) : policies[i].name # built.value.name
       /\ store' = setup.store
       /\ policies' = IF setup.raised THEN NotAppended(policies, built.value)
                      ELSE add_policy(policies, built.value)
       /\ added' = Append(added,
                       IF setup.raised
                       THEN [recipe |-> recipe, policy |-> built.value, raised |-> TRUE]
                       ELSE [recipe |-> recipe, policy |-> built.value])
       /\ UNCHANGED <<uuid, call, run, backend, limiter, group, member, factory, review>>

\* A caller calls check_pre_exec_policies(context) or
\* check_post_exec_policies(context): the loop starts at the first policy
Check(method, context) ==
    /\ call.pc = "idle"
    /\ call' = [IdleCall EXCEPT !.pc = "running", !.method = method, !.given = context,
                                !.context = context, !.idx = 1]
    /\ UNCHANGED <<policies, store, uuid, added, run, backend, limiter, group, member, factory, review>>

ChainAllowNamed == PolicyResultAllow(<<"manager">>)

\* return PolicyResult.allow()
ChainAllow == PolicyResultAllow(EmptyStr)

StopsOnDenialOnly(result) == ~result.allowed /\ ~result.pending

\* if not result.allowed: return result
Stops(result) == ~result.allowed

\* for policy in self._policies: the next iteration, which ends the loop when
\* the list (as it is now) is exhausted and else awaits the policy's method
Invoke ==
    /\ call.pc = "running"
    /\ IF call.idx > Len(policies)
       THEN call' = [call EXCEPT !.pc = "done", !.result = ChainAllow,
                                 !.seen = policies]
       ELSE call' = [call EXCEPT !.pc = "awaiting",
                                 !.trace = Append(@, <<"call", Str(call.idx)>>)]
    /\ UNCHANGED <<policies, store, uuid, added, run, backend, limiter, group, member, factory, review>>

KeepContext(c, after) == c.context

\* the policy's method worked on the caller's context object
SharedContext(c, after) == after.context

\* result = await policy.pre_execute(context): the awaited method returns
Return ==
    /\ call.pc = "awaiting"
    /\ LET p == policies[call.idx]
           before == Env(call.context, store, uuid, <<>>)
           r == PolicyExecute(p, call.method, before)
           c1 == [call EXCEPT
                     !.context = SharedContext(call, r.env),
                     !.trace = Append(@, <<"return", Str(call.idx)>>),
                     !.invocations = Append(@, [index |-> call.idx, policy |-> p,
                                                before |-> before, result |-> r.result,
                                                after |-> r.env])]
       IN /\ r.env.uuid <= MaxUuid
          /\ store' = r.env.store
          /\ uuid' = r.env.uuid
          /\ IF Thrown(r.result)
             THEN call' = [c1 EXCEPT !.pc = "raised", !.seen = policies]
             ELSE IF Stops(r.result)
             THEN call' = [c1 EXCEPT !.pc = "done", !.result = r.result,
                                     !.seen = policies]
             ELSE call' = [c1 EXCEPT !.pc = "running", !.idx = @ + 1]
    /\ UNCHANGED <<policies, added, run, backend, limiter, group, member, factory, review>>

\* The caller has its verdict; it may make another call later
Forget ==
    /\ call.pc \in {"done", "raised"}
    /\ call' = IdleCall
    /\ UNCHANGED <<policies, store, uuid, added, run, backend, limiter, group, member, factory, review>>

\* list_policies()
ListPolicies == [i \in 1..Len(policies) |-> policies[i].name]

\* Policy._policy_type / _policy_description of each class
PolicyType(p) ==
    CASE p.type = "custom" -> "custom"
      [] p.type = "manual_review" -> "manual_review"
      [] OTHER -> "base"
PolicyDescription(p) ==
    CASE p.type = "custom" -> "Custom callable-based policy"
      [] p.type = "manual_review" -> "Holds responses for manual review before delivery"
      [] OTHER -> ""

\* Policy._detect_phases: the phase methods the class overrides
DetectPhases(p) ==
    CASE p.type = "manual_review" -> <<"post">>
      [] p.type = "access_group" -> <<"pre">>
      [] OTHER -> <<"pre", "post">>

\* policy.export(), by class
RECURSIVE PolicyExport(_)
PolicyExport(p) ==
    [name |-> p.name, type |-> PolicyType(p), version |-> "1.0", enabled |-> TRUE,
     description |-> PolicyDescription(p), phase |-> DetectPhases(p),
     config |->
        CASE p.type = "custom" ->
                [phase |-> p.phase, deny_reason |-> p.deny_reason, has_check |-> TRUE]
          [] p.type = "manual_review" -> [has_review_callback |-> p.review_cb # "none"]
          [] p.type = "access_group" ->
                [owner |-> p.owner, users |-> Sorted(p.users), documents |-> p.documents]
          [] p.type \in {"all_of", "any_of"} ->
                [operator |-> p.type,
                 policies |-> [i \in 1..Len(p.policies) |-> PolicyExport(p.policies[i])]]
          [] p.type = "not" ->
                [operator |-> "not", policy |-> PolicyExport(p.policy),
                 deny_reason |-> p.deny_reason]]

\* PolicyManager.export()
Export ==
    LET exported == [i \in 1..Len(policies) |-> PolicyExport(policies[i])]
    IN [policies |-> exported, policy_count |-> Len(exported)]

------------------------------------------------------------------------------
(* The runner: schema, handler loading, Executor *)

\* check_pre_exec_policies / check_post_exec_policies as one evaluation: the
\* loop from policy i on (the run's manager is used by that run alone)
RECURSIVE CheckPoliciesFrom(_, _, _, _)
CheckPoliciesFrom(chain, method, e, i) ==
    IF i > Len(chain) THEN Returns(ChainAllow, e)
    ELSE LET r == PolicyExecute(chain[i], method, [e EXCEPT !.log = <<>>])
             e1 == [r.env EXCEPT !.log = e.log \o @]
         IN IF Thrown(r.result) THEN Returns(r.result, e1)
            ELSE IF Stops(r.result) THEN Returns(r.result, e1)
            ELSE CheckPoliciesFrom(chain, method, e1, i + 1)
CheckPolicies(chain, method, e) == CheckPoliciesFrom(chain, method, e, 1)

StoreConfigSchema(type, path) == [type |-> type, path |-> path]
ExecutionContextSchema(user_id, endpoint_slug, endpoint_type, metadata) ==
    [user_id |-> user_id, endpoint_slug |-> endpoint_slug,
     endpoint_type |-> endpoint_type, metadata |-> metadata]
MessageSchema(role, content) == [role |-> role, content |-> content]

\* RunnerInput: the fields the schema declares
RunnerInput(type, query, messages, context, policy_configs, store_config, handler_path, work_dir) ==
    [type |-> type, query |-> query, messages |-> messages, context |-> context,
     policies |-> policy_configs, store |-> store_config,
     handler_path |-> handler_path, work_dir |-> work_dir]

PolicyResultSchema(allowed, policy_name, reason, pending, metadata) ==
    [allowed |-> allowed, policy_name |-> policy_name, reason |-> reason,
     pending |-> pending, metadata |-> metadata]

RunnerOutput(success, result, error, error_type, policy_result) ==
    [success |-> success, result |-> result, error |-> error,
     error_type |-> error_type, policy_result |-> policy_result]

\* A caught exception as a response: success=False, error=str(e),
\* error_type=type(e).__name__
ErrorOutput(e) == RunnerOutput(FALSE, None, e.message, e.type, None)

\* Executor._policy_denied_output
PolicyDeniedOutput(result) ==
    RunnerOutput(FALSE, None,
                 IF result.reason # EmptyStr THEN result.reason ELSE <<"Policy denied">>,
                 "PolicyDenied",
                 PolicyResultSchema(FALSE, result.policy_name, result.reason,
                                    result.pending, result.metadata))

\* input_data.<name> on a pydantic model: a name that is no field of the
\* schema raises AttributeError
GetAttr(input, name) ==
    IF name \in DOMAIN input THEN Ok(input[name])
    ELSE Raise("AttributeError",
               <<"'RunnerInput' object has no attribute '", name, "'">>)

\* " ".join(m.content for m in messages if m.content)
RECURSIVE JoinContents(_)
JoinContents(messages) ==
    IF messages = <<>> THEN EmptyStr
    ELSE LET rest == JoinContents(Tail(messages))
             c == Head(messages).content
         IN IF c = EmptyStr THEN rest
            ELSE IF rest = EmptyStr THEN c ELSE c \o <<" ">> \o rest

\* Executor._build_input_dict
BuildInputDict(input) ==
    LET d1 == [k \in {"type"} |-> input.type]
        d2 == IF input.query # Nothing THEN DictSet(d1, "query", Value(input.query)) ELSE d1
        d3 == IF input.messages # Nothing
              THEN LET dm == DictSet(d2, "messages", Value(input.messages))
                   IN IF "query" \notin DOMAIN dm
                      THEN DictSet(dm, "query", JoinContents(Value(input.messages)))
                      ELSE dm
              ELSE d2
        token == GetAttr(input, "transaction_token")
    IN IF token.raised THEN token
       ELSE IF token.value # None THEN Ok(DictSet(d3, "transaction_token", token.value))
       ELSE Ok(d3)

\* The handler files of the requests: what load_handler finds at handler_path
\* and what the handler does when called
\*   runner.py   defines handler, which returns a dict
\*   text.py     defines handler, which returns a string
\*   raises.py   defines handler, which raises
\*   missing.py  is no file
HandlerPaths == {"runner.py", "text.py", "raises.py", "missing.py"}

\* load_handler
LoadHandler(handler_path) ==
    IF handler_path = "missing.py"
    THEN Raise("HandlerLoadError", <<"Handler file not found: ", handler_path>>)
    ELSE Ok(handler_path)

\* Executor._run_handler: the handler's value and whether it is a dict
RunHandler(input) ==
    LET handler == LoadHandler(input.handler_path)
    IN IF handler.raised THEN handler
       ELSE IF handler.value = "raises.py"
       THEN Raise("ExecutionError", <<"Handler execution failed: ", "boom">>)
       ELSE IF handler.value = "runner.py"
       THEN Ok([is_dict |-> TRUE, value |-> [answer |-> <<"42">>]])
       ELSE Ok([is_dict |-> FALSE, value |-> <<"42">>])

CreateStoreAnyPath(config) == IF config.type = "sqlite" THEN Ok("sqlite") ELSE Ok("memory")
\* Executor._create_store
CreateStore(config) ==
    IF config.type = "sqlite"
    THEN IF config.path = EmptyStr
         THEN Raise("ExecutionError", <<"SQLite store requires 'path' configuration">>)
         ELSE Ok("sqlite")
    ELSE Ok("memory")

IdleRun ==
    [pc |-> "idle", input |-> None, injected |-> FALSE, store_kind |-> "",
     made |-> <<>>, pm |-> <<>>, setups |-> <<>>, context |-> None, output |-> None,
     handler_loaded |-> FALSE, handler_calls |-> 0, pre_ran |-> FALSE,
     post_ran |-> FALSE, closed |-> FALSE,
     main |-> FALSE, stdout |-> <<>>, exit_code |-> <<>>]

\* execute() leaves _execute_internal: finally closes a store the executor
\* created if it has a close method (SQLiteStore has, InMemoryStore has not)
ClosesAnyStore(r) == r.store_kind = "sqlite"
\* if owns_store and hasattr(store, "close")
ClosesStore(r) == ~r.injected /\ r.store_kind = "sqlite"
Leave(r, output) ==
    [r EXCEPT !.pc = "returned", !.output = output, !.closed = ClosesStore(r)]

\* Executor(store=...): no store, or a store of the caller
InjectedStores == {Nothing, Some("memory"), Some("sqlite")}

\* Executor.execute(input_data) up to the policies the factory made: the store
\* is the injected one or is created from the configuration, then create_all
Begun(r, input, injected) ==
    LET created == IF injected # Nothing THEN Ok(Value(injected))
                   ELSE CreateStore(input.store)
        r0 == [r EXCEPT !.input = input, !.injected = (injected # Nothing)]
    IN IF created.raised
       THEN [r0 EXCEPT !.pc = "returned", !.output = ErrorOutput(created)]
       ELSE LET r1 == [r0 EXCEPT !.store_kind = created.value]
                made == CreateAll(input.policies)
            IN IF made.raised THEN Leave(r1, ErrorOutput(made))
               ELSE [r1 EXCEPT !.pc = "registering", !.made = made.value]

ExecuteBegin(input, injected) ==
    /\ run.pc = "idle"
    /\ run' = Begun(run, input, injected)
    /\ UNCHANGED <<policies, store, uuid, call, added, backend, limiter, group, member, factory, review>>

\* for policy in policies: await pm.add_policy(policy)
ExecuteAddPolicy ==
    /\ run.pc = "registering"
    /\ Len(run.pm) < Len(run.made)
    /\ LET policy == run.made[Len(run.pm) + 1]
       IN /\ store' = PolicySetup(policy, store)
          /\ run' = [run EXCEPT !.pm = add_policy(@, policy),
                                 !.setups = @ \o SetupCalls(policy)]
    /\ UNCHANGED <<policies, uuid, call, added, backend, limiter, group, member, factory, review>>

\* The rest of _execute_internal: the context, the pre-phase, the handler,
\* the post-phase, the response
ExecuteRun ==
    /\ run.pc = "registering"
    /\ Len(run.pm) = Len(run.made)
    /\ LET input == run.input
           built == BuildInputDict(input)
       IN IF built.raised
          THEN /\ run' = Leave(run, ErrorOutput(built))
               /\ UNCHANGED <<store, uuid>>
          ELSE LET ctx == RequestContext(input.context.user_id, built.value, EmptyDict,
                                         input.context.metadata)
                   pre == CheckPolicies(run.pm, PreExecute, Env(ctx, store, uuid, <<>>))
                   r1 == [run EXCEPT !.pre_ran = TRUE, !.context = pre.env.context]
               IN IF Thrown(pre.result)
                  THEN /\ run' = Leave(r1, ErrorOutput(pre.result))
                       /\ store' = pre.env.store
                       /\ uuid' = pre.env.uuid
                  ELSE IF ~pre.result.allowed
                  THEN /\ run' = Leave(r1, PolicyDeniedOutput(pre.result))
                       /\ store' = pre.env.store
                       /\ uuid' = pre.env.uuid
                  ELSE LET handled == RunHandler(input)
                           r2 == [r1 EXCEPT
                                    !.handler_loaded =
                                        ~(handled.raised /\ handled.type = "HandlerLoadError"),
                                    !.handler_calls =
                                        IF handled.raised /\ handled.type = "HandlerLoadError"
                                        THEN @ ELSE @ + 1]
                       IN IF handled.raised
                          THEN /\ run' = Leave(r2, ErrorOutput(handled))
                               /\ store' = pre.env.store
                               /\ uuid' = pre.env.uuid
                          ELSE LET out == IF handled.value.is_dict THEN handled.value.value
                                          ELSE [result |-> handled.value.value]
                                   ctx2 == [pre.env.context EXCEPT !.output = out]
                                   post == CheckPolicies(run.pm, PostExecute,
                                               [pre.env EXCEPT !.context = ctx2, !.log = <<>>])
                                   r3 == [r2 EXCEPT !.post_ran = TRUE,
                                                    !.context = post.env.context]
                               IN /\ store' = post.env.store
                                  /\ uuid' = post.env.uuid
                                  /\ IF Thrown(post.result)
                                     THEN run' = Leave(r3, ErrorOutput(post.result))
                                     ELSE IF ~post.result.allowed
                                     THEN run' = Leave(r3, PolicyDeniedOutput(post.result))
                                     ELSE run' = Leave(r3,
                                             RunnerOutput(TRUE, handled.value.value, EmptyStr, "",
                                                 PolicyResultSchema(TRUE, EmptyStr, EmptyStr,
                                                                    FALSE, EmptyDict)))
    /\ UNCHANGED <<policies, call, added, backend, limiter, group, member, factory, review>>

\* RunnerInput.model_validate_json(input_json): text that is no JSON, or an
\* object without a required field, is a ValidationError; absent optional
\* fields get their defaults
RequiredFields == {"type", "context", "handler_path", "work_dir"}
ModelValidateJson(input_json) ==
    IF ~input_json.json
    THEN Raise("ValidationError", <<"Invalid JSON">>)
    ELSE IF ~(RequiredFields \subseteq DOMAIN input_json.object)
    THEN Raise("ValidationError", <<"Field required">>)
    ELSE LET o == input_json.object
         IN Ok(RunnerInput(o.type,
                           IF "query" \in DOMAIN o THEN Some(o.query) ELSE Nothing,
                           IF "messages" \in DOMAIN o THEN Some(o.messages) ELSE Nothing,
                           o.context, DictGet(o, "policies", <<>>),
                           DictGet(o, "store", StoreConfigSchema("memory", EmptyStr)),
                           o.handler_path, o.work_dir))

\* return 0 if output.success else 1
ExitCodeZero(output) == 0
ExitCode(output) == IF output.success THEN 0 ELSE 1

\* main() up to asyncio.run(executor.execute(input_data)): stdin is read and
\* validated, the executor is made without a store, execute begins; an
\* exception prints an error response and returns 1
Main(input_json) ==
    /\ run.pc = "idle"
    /\ LET input_data == ModelValidateJson(input_json)
           r0 == [run EXCEPT !.main = TRUE]
       IN IF input_data.raised
          THEN run' = [r0 EXCEPT !.pc = "exited",
                                 !.stdout = Append(@, ErrorOutput(input_data)),
                                 !.exit_code = <<1>>]
          ELSE run' = Begun(r0, input_data.value, Nothing)
    /\ UNCHANGED <<policies, store, uuid, call, added, backend, limiter, group, member, factory, review>>

\* print(output.model_dump_json()); return 0 if output.success else 1
MainPrint ==
    /\ run.pc = "returned"
    /\ run.main
    /\ run' = [run EXCEPT !.pc = "exited",
                          !.stdout = Append(@, run.output),
                          !.exit_code = <<ExitCode(run.output)>>]
    /\ UNCHANGED <<policies, store, uuid, call, added, backend, limiter, group, member, factory, review>>

\* The requests the runner is given
mrConfig == PolicyConfigSchema(<<"mr">>, "manual_review", EmptyDict)
PolicyConfigLists ==
    { <<>>,
      <<engConfig>>,
      <<mrConfig>>,
      <<engConfig, mrConfig>>,
      <<engConfig, notConfig(<<"outsider">>, [policy |-> <<"eng">>])>>,
      <<notConfig(<<"early">>, [policy |-> <<"eng">>]), engConfig>>,
      <<PolicyConfigSchema(<<"x">>, "quota", EmptyDict)>>,
      <<PolicyConfigSchema(<<"c">>, "custom", [check |-> "text"]), engConfig>>,
      <<engConfig, PolicyConfigSchema(<<"eng">>, "access_group", [users |-> {"bob"}])>> }
StoreConfigs ==
    { StoreConfigSchema("memory", EmptyStr),
      StoreConfigSchema("sqlite", <<"policy.db">>),
      StoreConfigSchema("sqlite", EmptyStr) }
RunnerInputs ==
    { RunnerInput(t.type, t.query, t.messages,
                  ExecutionContextSchema(u, <<"slug">>, t.type, EmptyDict),
                  cfgs, st, h, <<"/work">>) :
        t \in { [type |-> "data_source", query |-> Some(<<"hello">>), messages |-> Nothing],
                [type |-> "model", query |-> Nothing,
                 messages |-> Some(<<MessageSchema("user", <<"hello">>)>>)] },
        u \in Users, cfgs \in PolicyConfigLists, st \in StoreConfigs, h \in HandlerPaths }


------------------------------------------------------------------------------
(* The Store backends: InMemoryStore and SQLiteStore *)

\* json.dumps(value) of a JSON object whose members are lists of integers,
\* as the sequence of the text's tokens
JsonList(xs) ==
    <<"[">> \o Join(<<",", " ">>, [i \in 1..Len(xs) |-> Str(xs[i])]) \o <<"]">>
RECURSIVE JsonMembers(_, _)
JsonMembers(d, keys) ==
    IF keys = {} THEN <<>>
    ELSE LET k == CHOOSE x \in keys : TRUE
             rest == keys \ {k}
         IN <<"\"", k, "\"", ":", " ">> \o JsonList(d[k])
                \o (IF rest = {} THEN <<>> ELSE <<",", " ">> \o JsonMembers(d, rest))
JsonDumps(value) == <<"{">> \o JsonMembers(value, DOMAIN value) \o <<"}">>

\* json.loads(text): the value and the position after it
IsDigit(c) == \E d \in 1..Len(Digits) : Digits[d] = c
DigitValue(c) == (CHOOSE d \in 1..Len(Digits) : Digits[d] = c) - 1
Parsed(value, next) == [value |-> value, next |-> next]
RECURSIVE ParseInt(_, _, _)
ParseInt(text, i, acc) ==
    IF i <= Len(text) /\ IsDigit(text[i])
    THEN ParseInt(text, i + 1, acc * Len(Digits) + DigitValue(text[i]))
    ELSE Parsed(acc, i)
RECURSIVE ParseList(_, _, _)
ParseList(text, i, acc) ==
    IF text[i] = "]" THEN Parsed(acc, i + 1)
    ELSE IF text[i] \in {"[", ",", " "} THEN ParseList(text, i + 1, acc)
    ELSE LET n == ParseInt(text, i, 0) IN ParseList(text, n.next, Append(acc, n.value))
RECURSIVE ParseMembers(_, _, _)
ParseMembers(text, i, acc) ==
    IF text[i] = "}" THEN Parsed(acc, i + 1)
    ELSE IF text[i] \in {"{", ",", " "} THEN ParseMembers(text, i + 1, acc)
    ELSE LET k == text[i + 1]                  \* between the quotes
             v == ParseList(text, i + 4, <<>>) \* after the closing quote and the colon
         IN ParseMembers(text, v.next, DictSet(acc, k, v.value))
JsonLoads(text) == ParseMembers(text, 1, EmptyDict).value

\* A dict in insertion order: a sequence of entries
Entry(key, value) == [key |-> key, value |-> value]
EntryAt(entries, key) == {i \in 1..Len(entries) : entries[i].key = key}
EntryGet(entries, key) ==
    IF EntryAt(entries, key) = {} THEN None
    ELSE entries[CHOOSE i \in EntryAt(entries, key) : TRUE].value
EntrySet(entries, key, value) ==
    IF EntryAt(entries, key) = {} THEN Append(entries, Entry(key, value))
    ELSE [i \in 1..Len(entries) |->
            IF entries[i].key = key THEN Entry(key, value) ELSE entries[i]]
EntryPop(entries, key) == SelectSeq(entries, LAMBDA e : e.key # key)
EntryKeys(entries) == [i \in 1..Len(entries) |-> entries[i].key]

\* The outcome of a store operation: the backend's new contents and the
\* value returned
Outcome(contents, result) == [contents |-> contents, result |-> result]

\* InMemoryStore.  self._data is a defaultdict(dict): self._data[namespace]
\* inserts an empty dict for a namespace that is not there
DataAt(data, namespace) ==
    IF namespace \in DOMAIN data THEN data ELSE DictSet(data, namespace, <<>>)
MemGet(data, namespace, key) ==
    LET d == DataAt(data, namespace) IN Outcome(d, EntryGet(d[namespace], key))
MemSet(data, namespace, key, value) ==
    LET d == DataAt(data, namespace)
    IN Outcome([d EXCEPT ![namespace] = EntrySet(@, key, value)], None)
MemDelete(data, namespace, key) ==
    LET d == DataAt(data, namespace)
    IN Outcome([d EXCEPT ![namespace] = EntryPop(@, key)], None)
MemListKeys(data, namespace) ==
    LET d == DataAt(data, namespace) IN Outcome(d, EntryKeys(d[namespace]))
MemExists(data, namespace, key) ==
    LET d == DataAt(data, namespace)
    IN Outcome(d, EntryAt(d[namespace], key) # {})
MemClearNamespace(data, namespace) ==
    Outcome([n \in DOMAIN data \ {namespace} |-> data[n]], None)

\* SQLiteStore.  The table policy_store: (namespace, key) -> value text, the
\* pair being the primary key
KeyColumnOrder == <<"k1", "k2">>    \* the keys of the requests, in index order
InsertOrIgnore(rows, namespace, key, text) ==
    IF <<namespace, key>> \in DOMAIN rows THEN rows
    ELSE DictSet(rows, <<namespace, key>>, text)
InsertOrReplace(rows, namespace, key, text) == DictSet(rows, <<namespace, key>>, text)
DeleteWhere(rows, gone) == [p \in {q \in DOMAIN rows : q \notin gone} |-> rows[p]]
ClearAll(rows, namespace) == DeleteWhere(rows, DOMAIN rows)
ClearWhere(rows, namespace) == DeleteWhere(rows, {q \in DOMAIN rows : q[1] = namespace})
SqlGet(rows, namespace, key) ==
    Outcome(rows, IF <<namespace, key>> \in DOMAIN rows
                  THEN JsonLoads(rows[<<namespace, key>>]) ELSE None)
SqlSet(rows, namespace, key, value) ==
    Outcome(InsertOrReplace(rows, namespace, key, JsonDumps(value)), None)
SqlDeleteNamespace(rows, namespace, key) == Outcome(ClearWhere(rows, namespace), None)
SqlDelete(rows, namespace, key) ==
    Outcome(DeleteWhere(rows, {<<namespace, key>>}), None)
SqlListKeys(rows, namespace) ==
    Outcome(rows, SelectSeq(KeyColumnOrder, LAMBDA k : <<namespace, k>> \in DOMAIN rows))
SqlExists(rows, namespace, key) == Outcome(rows, <<namespace, key>> \in DOMAIN rows)
SqlClearNamespace(rows, namespace) == Outcome(ClearWhere(rows, namespace), None)

\* await db.commit(): what the connection wrote becomes the file's contents
CommitNothing(work, file) == file
Commit(work, file) == work

\* The operations of the Store protocol
ReadOps == {"get", "list_keys", "exists"}
WriteOps == {"set", "delete", "clear_namespace"}
StoreOp(name, namespace, key, value) ==
    [name |-> name, namespace |-> namespace, key |-> key, value |-> value]
MemApply(data, op) ==
    CASE op.name = "get" -> MemGet(data, op.namespace, op.key)
      [] op.name = "set" -> MemSet(data, op.namespace, op.key, op.value)
      [] op.name = "delete" -> MemDelete(data, op.namespace, op.key)
      [] op.name = "list_keys" -> MemListKeys(data, op.namespace)
      [] op.name = "exists" -> MemExists(data, op.namespace, op.key)
      [] op.name = "clear_namespace" -> MemClearNamespace(data, op.namespace)
SqlApply(rows, op) ==
    CASE op.name = "get" -> SqlGet(rows, op.namespace, op.key)
      [] op.name = "set" -> SqlSet(rows, op.namespace, op.key, op.value)
      [] op.name = "delete" -> SqlDelete(rows, op.namespace, op.key)
      [] op.name = "list_keys" -> SqlListKeys(rows, op.namespace)
      [] op.name = "exists" -> SqlExists(rows, op.namespace, op.key)
      [] op.name = "clear_namespace" -> SqlClearNamespace(rows, op.namespace)

\* What the store's users observe as its contents, (namespace, key) -> value,
\* as the Store contract describes the operations: set creates or overwrites,
\* delete is a no-op on a missing key, clear_namespace deletes every key of
\* the namespace
Touches(op, pair) ==
    /\ op.name \in WriteOps
    /\ op.namespace = pair[1]
    /\ op.name = "clear_namespace" \/ op.key = pair[2]
Effect(contents, op) ==
    CASE op.name = "set" -> DictSet(contents, <<op.namespace, op.key>>, op.value)
      [] op.name \in {"delete", "clear_namespace"} ->
            [p \in {q \in DOMAIN contents : ~Touches(op, q)} |-> contents[p]]
      [] OTHER -> contents
\* What an operation answers on given contents: get the value or None, exists
\* a boolean, list_keys the keys of the namespace, the others nothing
Answer(contents, op) ==
    CASE op.name = "get" ->
            IF <<op.namespace, op.key>> \in DOMAIN contents
            THEN contents[<<op.namespace, op.key>>] ELSE None
      [] op.name = "exists" -> <<op.namespace, op.key>> \in DOMAIN contents
      [] op.name = "list_keys" -> {p[2] : p \in {q \in DOMAIN contents : q[1] = op.namespace}}
      [] OTHER -> None
Within(contents, namespace) ==
    [p \in {q \in DOMAIN contents : q[1] = namespace} |-> contents[p]]

\* The store under test: one backend, used by the callers of one process
StoreKinds == {"memory", "sqlite"}
Callers == {"c1", "c2"}
StoreNamespaces == {"ns_a", "ns_b"}
StoreKeys == {"k1", "k2"}
StorePairs == {<<"ns_a", "k1">>, <<"ns_a", "k2">>, <<"ns_b", "k1">>}
StoreValues == {[timestamps |-> <<1>>], [timestamps |-> <<1, 2>>]}
StoreOps ==
    { StoreOp("set", p[1], p[2], v) : p \in StorePairs, v \in StoreValues }
    \cup { StoreOp(o, p[1], p[2], None) : o \in {"get", "delete", "exists"}, p \in StorePairs }
    \cup { StoreOp(o, n, "", None) : o \in {"list_keys", "clear_namespace"},
                                     n \in StoreNamespaces }

IdleCaller ==
    [pc |-> "idle", op |-> None, result |-> None,
     clean |-> TRUE,      \* history: no write to the operation's pairs was in flight
     expect |-> None,     \* history: the answer on the effects of the returned operations
     local |-> None]      \* history: the answer on the namespace's own contents
NewBackend(kind) ==
    [kind |-> kind,
     data |-> EmptyDict,          \* InMemoryStore._data
     file |-> EmptyDict,          \* the committed rows of the SQLite file
     work |-> EmptyDict,          \* the rows as the open connection sees them
     connected |-> FALSE,         \* SQLiteStore._db is not None
     queue |-> <<>>,              \* callers awaiting the connection, in order
     callers |-> [c \in Callers |-> IdleCaller],
     done |-> EmptyDict,          \* history: the effects of the operations that returned
     ops |-> 0,
     actor |-> "",                \* history: the caller whose operation stepped last
     restarted_at |-> 0,          \* history: the value of ops at the last restart
     overlap |-> FALSE,           \* history: an operation began while another was in flight
     raced |-> {}]                \* history: the pairs two writes in flight both touched
NoBackend == NewBackend("")

\* The contents the backend shows to its callers
EntriesView(data) ==
    LET pairs == UNION { {<<n, data[n][i].key>> : i \in 1..Len(data[n])} : n \in DOMAIN data }
    IN [p \in pairs |-> EntryGet(data[p[1]], p[2])]
RowsView(rows) == [p \in DOMAIN rows |-> JsonLoads(rows[p])]
View(b) == IF b.kind = "memory" THEN EntriesView(b.data) ELSE RowsView(b.work)

InFlight(b) == {b.callers[c].op : c \in {x \in Callers : b.callers[x].pc = "queued"}}
Pairs(op) ==
    IF op.name \in {"list_keys", "clear_namespace"}
    THEN {<<op.namespace, k>> : k \in StoreKeys}
    ELSE {<<op.namespace, op.key>>}
Clean(b, op) == \A w \in InFlight(b) : \A p \in Pairs(op) : ~Touches(w, p)

\* A caller awaits one operation of the store.  InMemoryStore's methods
\* have no await inside and run to their return; SQLiteStore's connect on
\* first use, run their statement on the connection and await it
StoreCall(c, op) ==
    /\ backend.kind \in StoreKinds
    /\ backend.callers[c].pc \in {"idle", "returned"}
    /\ backend.ops < MaxOps
    /\ LET began == [pc |-> "queued", op |-> op, result |-> None,
                     clean |-> Clean(backend, op),
                     expect |-> Answer(backend.done, op),
                     local |-> Answer(Within(View(backend), op.namespace), op)]
       IN IF backend.kind = "memory"
          THEN LET out == MemApply(backend.data, op)
               IN backend' = [backend EXCEPT
                     !.data = out.contents,
                     !.callers[c] = [began EXCEPT !.pc = "returned", !.result = out.result],
                     !.done = Effect(@, op),
                     !.actor = c,
                     !.ops = @ + 1]
          ELSE LET out == SqlApply(backend.work, op)
               IN backend' = [backend EXCEPT
                     !.connected = TRUE,
                     !.work = out.contents,
                     !.callers[c] = [began EXCEPT !.result = out.result],
                     !.queue = Append(@, c),
                     !.overlap = @ \/ backend.queue # <<>>,
                     !.raced = @ \cup {p \in StorePairs :
                                   /\ Touches(op, p)
                                   /\ \E w \in InFlight(backend) : Touches(w, p)},
                     !.actor = c,
                     !.ops = @ + 1]
    /\ UNCHANGED <<policies, store, uuid, call, added, run, limiter, group, member, factory, review>>

\* The connection answers its callers in the order they asked: the first
\* caller in the queue resumes, commits if its statement wrote, and returns
StoreResume ==
    /\ backend.queue # <<>>
    /\ LET c == Head(backend.queue)
           op == backend.callers[c].op
       IN backend' = [backend EXCEPT
             !.file = IF op.name \in WriteOps THEN Commit(backend.work, @) ELSE @,
             !.done = Effect(@, op),
             !.callers[c].pc = "returned",
             !.actor = c,
             !.queue = Tail(@)]
    /\ UNCHANGED <<policies, store, uuid, call, added, run, limiter, group, member, factory, review>>

\* The process ends, with operations in flight or not, and a new process
\* opens a new store: an InMemoryStore starts empty, an SQLiteStore on the
\* same file sees what was committed.  The history keeps the effects of the
\* operations that returned; an operation cut short left what the file has
StoreRestart ==
    /\ backend.kind \in StoreKinds
    /\ backend.ops < MaxOps
    /\ LET cut == {p \in StoreNamespaces \X StoreKeys :
                      \E w \in InFlight(backend) : Touches(w, p)}
           kept == RowsView(backend.file)
           here == {p \in DOMAIN backend.done \cup DOMAIN kept :
                      IF p \in cut THEN p \in DOMAIN kept ELSE p \in DOMAIN backend.done}
       IN backend' = [backend EXCEPT
             !.data = EmptyDict,
             !.work = backend.file,
             !.connected = FALSE,
             !.queue = <<>>,
             !.callers = [c \in Callers |-> IdleCaller],
             !.done = IF backend.kind = "memory" THEN EmptyDict
                      ELSE [p \in here |-> IF p \in cut THEN kept[p] ELSE backend.done[p]],
             !.overlap = FALSE,
             !.raced = {},
             !.actor = "",
             !.ops = @ + 1,
             !.restarted_at = backend.ops + 1]
    /\ UNCHANGED <<policies, store, uuid, call, added, run, limiter, group, member, factory, review>>


------------------------------------------------------------------------------
(* RateLimitPolicy *)

\* RateLimitPolicy.__init__
RateLimitPolicy(name, max_requests, window_seconds) ==
    [name |-> name, type |-> "rate_limit", max_requests |-> max_requests,
     window_seconds |-> window_seconds]

\* timestamps = [ts for ts in timestamps if ts > cutoff]
SurvivesAtCutoff(ts, cutoff) == ts >= cutoff
Survives(ts, cutoff) == ts > cutoff
Prune(timestamps, cutoff) == SelectSeq(timestamps, LAMBDA ts : Survives(ts, cutoff))

\* if len(timestamps) >= self.max_requests: deny
OverLimitAboveOnly(p, timestamps) == Len(timestamps) > p.max_requests
OverLimit(p, timestamps) == Len(timestamps) >= p.max_requests

\* timestamps[0]
First(timestamps) ==
    IF timestamps = <<>> THEN Raise("IndexError", <<"list index out of range">>)
    ELSE Ok(timestamps[1])

\* RateLimitPolicy.pre_execute from the value the store returned on: the
\* outcome (a result or an exception), the list written to the store if one
\* is, and the remaining count put into the context's metadata
RateDecision(p, state, now) ==
    LET cutoff == now - p.window_seconds
        timestamps == Prune(IF state # None THEN DictGet(state, "timestamps", <<>>) ELSE <<>>,
                            cutoff)
    IN IF OverLimit(p, timestamps)
       THEN LET first == First(timestamps)
            IN [outcome |->
                    IF first.raised THEN first
                    ELSE Ok(PolicyResultDeny(p.name,
                              <<"Rate limit exceeded: ">> \o Str(p.max_requests)
                                  \o <<" requests per ">> \o Str(p.window_seconds) \o <<"s">>,
                              [remaining |-> 0,
                               reset_at |-> first.value + p.window_seconds])),
                written |-> <<>>, remaining |-> <<>>]
       ELSE LET appended == Append(timestamps, now)
            IN [outcome |-> Ok(PolicyResultAllow(p.name)),
                written |-> <<[timestamps |-> appended]>>,
                remaining |-> <<p.max_requests - Len(appended)>>]

\* The limiter under test: one policy on one store, an injected clock, and
\* the pre-checks of two request tasks
Tasks == {"t1", "t2"}
MaxRequests == {0, 1, 2}
WindowSeconds == {2}
IdleCheck ==
    [pc |-> "idle", user |-> "", now |-> 0, state |-> None, outcome |-> None,
     remaining |-> <<>>,
     prior |-> <<>>,      \* history: the user's admitted timestamps when the check began
     held |-> <<>>]       \* history: the timestamps that survive the check's cutoff
NewLimiter(max_requests, window_seconds, suspends) ==
    [policy |-> RateLimitPolicy(<<"rl">>, max_requests, window_seconds),
     suspends |-> suspends,       \* the store's get awaits (SQLiteStore) or not (InMemoryStore)
     now |-> 0,                   \* the injected clock
     stored |-> EmptyDict,        \* the namespace's contents: user -> {"timestamps": [...]}
     checks |-> [t \in Tasks |-> IdleCheck],
     waiting |-> <<>>,            \* the tasks awaiting the store, in order
     admitted |-> [u \in Users |-> <<>>],   \* history: the timestamps of the allowed checks
     raced |-> {},                \* history: the users two of whose checks overlapped
     begun |-> 0]

\* The key of a user's entry in the policy's namespace: context.user_id
SharedKey(user) == "alice"
EntryKey(user) == user

\* clock.advance(1)
Advance ==
    /\ limiter # None
    /\ limiter.now < MaxTime
    /\ limiter.waiting = <<>> \/ limiter.suspends
    /\ limiter' = [limiter EXCEPT !.now = @ + 1]
    /\ UNCHANGED <<policies, store, uuid, call, added, run, backend, group, member, factory, review>>

\* pre_execute up to the value of store.get: the clock is read and the
\* user's state fetched
RateRead(t, user) ==
    /\ limiter # None
    /\ limiter.checks[t].pc \in {"idle", "done"}
    /\ limiter.begun < MaxChecks
    /\ limiter.waiting = <<>> \/ limiter.suspends
    /\ limiter' = [limiter EXCEPT
          !.checks[t] = [IdleCheck EXCEPT
                !.pc = "read", !.user = user, !.now = limiter.now,
                !.state = DictGet(limiter.stored, EntryKey(user), None),
                !.prior = limiter.admitted[user]],
          !.waiting = Append(@, t),
          !.raced = @ \cup {u \in {user} :
                        \E o \in Tasks : /\ limiter.checks[o].pc = "read"
                                         /\ limiter.checks[o].user = user},
          !.begun = @ + 1]
    /\ UNCHANGED <<policies, store, uuid, call, added, run, backend, group, member, factory, review>>

\* pre_execute from the value of store.get on: prune, deny or append and
\* store.set, the remaining count, the result
RateDecide ==
    /\ limiter # None
    /\ limiter.waiting # <<>>
    /\ LET t == Head(limiter.waiting)
           check == limiter.checks[t]
           d == RateDecision(limiter.policy, check.state, check.now)
           allowed == ~d.outcome.raised /\ d.outcome.value.allowed
       IN limiter' = [limiter EXCEPT
             !.checks[t] = [check EXCEPT
                   !.pc = "done", !.outcome = d.outcome, !.remaining = d.remaining,
                   !.held = Prune(IF check.state # None THEN check.state.timestamps ELSE <<>>,
                                  check.now - limiter.policy.window_seconds)],
             !.waiting = Tail(@),
             !.stored = IF d.written # <<>> THEN DictSet(@, EntryKey(check.user), d.written[1])
                          ELSE @,
             !.admitted[check.user] = IF allowed THEN Append(@, check.now) ELSE @]
    /\ UNCHANGED <<policies, store, uuid, call, added, run, backend, group, member, factory, review>>


------------------------------------------------------------------------------
(* Access groups evaluated on one context *)

\* The groups set up on the store, and the lists a context arrives with:
\* "resolved_documents" is written by access groups only, so it has no
\* repeats; a group's own document list may repeat a document
AccessGroups ==
    {AccessGroupPolicy(<<"g1">>, "owner", {"alice"}, <<"doc_1">>),
     AccessGroupPolicy(<<"g2">>, "owner", {"alice", "bob"}, <<"doc_2", "doc_1">>),
     AccessGroupPolicy(<<"g3">>, "owner", {"alice"}, <<"doc_3", "doc_3", "doc_2">>),
     AccessGroupPolicy(<<"g4">>, "owner", {"bob"}, <<"doc_1", "doc_3">>)}
PriorDocuments == {Nothing, Some(<<>>), Some(<<"doc_2">>), Some(<<"doc_3", "doc_1">>)}
GroupUsers == {"alice", "bob", "eve"}
NewGroupRun(user_id, prior) ==
    [context |-> RequestContext(user_id, EmptyDict, None,
                    IF prior = Nothing THEN EmptyDict
                    ELSE DictSet(EmptyDict, "resolved_documents", Value(prior))),
     initial |-> IF prior = Nothing THEN <<>> ELSE Value(prior),
     evaluated |-> <<>>]     \* history: the pre-checks made on the context

\* await ag.pre_execute(ctx)
GroupPreExecute(p) ==
    /\ group # None
    /\ Len(group.evaluated) < MaxEvaluations
    /\ LET r == AccessGroupPreExecute(p, Env(group.context, EmptyStore, 0, <<>>))
       IN group' = [group EXCEPT
             !.context = r.env.context,
             !.evaluated = Append(@, [policy |-> p, result |-> r.result,
                                      before |-> group.context.metadata,
                                      after |-> r.env.context.metadata])]
    /\ UNCHANGED <<policies, store, uuid, call, added, run, backend, limiter, member, factory, review>>


------------------------------------------------------------------------------
(* Stateful membership policies: AccessGroupPolicy, BundleSubscriptionPolicy *)

\* BundleSubscriptionPolicy.__init__ (the plan fields other than plan_name
\* are carried for export only)
BundleSubscriptionPolicy(name, users, plan_name) ==
    [type |-> "bundle_subscription", name |-> name, users |-> users, plan_name |-> plan_name]

\* An instance in a process: its fields, _synced, and whether .store is set
NewInstance(p) == [policy |-> p, synced |-> FALSE, attached |-> FALSE]

ConfigKey == <<"_config">>

\* BundleSubscriptionPolicy._sync_to_store
BundleSyncToStore(p, st) == StoreSet(st, Namespace(p), ConfigKey, [users |-> Sorted(p.users)])

\* _sync_to_store of either class
SyncToStore(p, st) ==
    IF p.type = "access_group" THEN AccessGroupSyncToStore(p, st) ELSE BundleSyncToStore(p, st)

\* _load_from_store of either class: a missing or empty entry leaves the
\* fields as they were
LoadFromStore(p, st) ==
    LET cfg == StoreGet(st, Namespace(p), ConfigKey)
        users == {DictGet(cfg, "users", <<>>)[i] : i \in 1..Len(DictGet(cfg, "users", <<>>))}
    IN IF cfg = None \/ cfg = EmptyDict THEN p
       ELSE IF p.type = "access_group"
       THEN [p EXCEPT !.owner = DictGet(cfg, "owner", p.owner),
                      !.users = users,
                      !.documents = DictGet(cfg, "documents", <<>>)]
       ELSE [p EXCEPT !.users = users]

\* setup: Policy.setup stores the reference, then _sync_to_store
MemberSetup(inst, st) ==
    [inst |-> [inst EXCEPT !.synced = TRUE, !.attached = TRUE],
     store |-> SyncToStore(inst.policy, st)]

\* if self._synced: await self._sync_to_store()
ResyncNever(inst, st) == st
Resync(inst, st) == IF inst.synced THEN SyncToStore(inst.policy, st) ELSE st

\* self._users.update(user_ids)
UsersUpdate(users, user_ids) == users \cup user_ids
\* self._users -= set(user_ids)
UsersKeep(users, user_ids) == users
UsersMinus(users, user_ids) == users \ user_ids

\* for doc_id in doc_ids: if doc_id not in self._documents: append
RECURSIVE AppendNew(_, _)
AppendNew(documents, doc_ids) ==
    IF doc_ids = <<>> THEN documents
    ELSE AppendNew(IF \E i \in 1..Len(documents) : documents[i] = Head(doc_ids)
                   THEN documents ELSE Append(documents, Head(doc_ids)),
                   Tail(doc_ids))
\* [d for d in self._documents if d not in set(doc_ids)]
WithoutDocuments(documents, doc_ids) ==
    SelectSeq(documents, LAMBDA d : \A i \in 1..Len(doc_ids) : doc_ids[i] # d)

\* add_users / remove_users / add_documents / remove_documents: the field
\* is updated, then the whole configuration is written if synced
Mutated(inst, st, policy) ==
    LET after == [inst EXCEPT !.policy = policy]
    IN [inst |-> after, store |-> Resync(after, st)]
MemberAddUsers(inst, st, user_ids) ==
    Mutated(inst, st, [inst.policy EXCEPT !.users = UsersUpdate(@, user_ids)])
MemberRemoveUsers(inst, st, user_ids) ==
    Mutated(inst, st, [inst.policy EXCEPT !.users = UsersMinus(@, user_ids)])
MemberAddDocuments(inst, st, doc_ids) ==
    Mutated(inst, st, [inst.policy EXCEPT !.documents = AppendNew(@, doc_ids)])
MemberRemoveDocuments(inst, st, doc_ids) ==
    Mutated(inst, st, [inst.policy EXCEPT !.documents = WithoutDocuments(@, doc_ids)])

\* BundleSubscriptionPolicy.pre_execute after the reload
BundlePreExecute(p, e) ==
    IF e.context.user_id \notin p.users
    THEN Returns(PolicyResultDeny(p.name,
                    <<"User '", e.context.user_id, "' does not have an active subscription">>
                        \o (IF p.plan_name # EmptyStr
                            THEN <<" to plan '">> \o p.plan_name \o <<"'">> ELSE EmptyStr),
                    EmptyDict), e)
    ELSE Returns(PolicyResultAllow(p.name), e)

\* pre_execute of either class: reload when not synced (self.store is an
\* unset attribute on an instance that was never given a store), then the
\* membership test
MemberPreExecute(inst, st, context) ==
    IF ~inst.synced /\ ~inst.attached
    THEN [inst |-> inst, outcome |-> Raise("AttributeError", <<"store">>)]
    ELSE LET p == IF inst.synced THEN inst.policy ELSE LoadFromStore(inst.policy, st)
             e == Env(context, st, 0, <<>>)
             r == IF p.type = "access_group" THEN AccessGroupPreExecute(p, e)
                  ELSE BundlePreExecute(p, e)
         IN [inst |-> [inst EXCEPT !.policy = p], outcome |-> Ok(r.result)]

\* The policies as their constructors are called at every start of the
\* process, and the arguments of the runtime calls
MemberDefaults ==
    {AccessGroupPolicy(<<"eng">>, <<"owner">>, {"alice"}, <<"doc_a">>),
     AccessGroupPolicy(<<"ops">>, EmptyStr, {}, <<>>),
     BundleSubscriptionPolicy(<<"plan">>, {"alice"}, <<"Pro">>),
     BundleSubscriptionPolicy(<<"basic">>, {}, EmptyStr)}
UserIdLists == {{"bob"}, {"alice", "bob"}}
DocIdLists == {<<"doc_b">>, <<"doc_a", "doc_b">>}
NoStanding == [u \in Users |-> "none"]
NewMember(p, durable) ==
    [defaults |-> p,
     inst |-> NewInstance(p),
     durable |-> durable,         \* the store outlives the process (SQLiteStore) or not
     store |-> EmptyStore,
     steps |-> 0,
     last |-> None,               \* history: the last pre-check, its user and outcome
     standing |-> NoStanding,     \* history: per user, the last of add_users / remove_users
                                  \* on this instance since its setup that named the user
     done |-> {},                 \* history: the runtime calls made on this instance since setup
     inherited |-> Nothing,       \* history: the configuration a runtime call had written,
                                  \* found in the store by this process when it started
     touched |-> FALSE]           \* history: a runtime call was made in this process

StandingAfter(m, user_ids, what) ==
    IF m.inst.synced THEN [u \in Users |-> IF u \in user_ids THEN what ELSE m.standing[u]]
    ELSE m.standing

Stepped(m, r, name) ==
    [m EXCEPT !.inst = r.inst, !.store = r.store, !.steps = @ + 1, !.touched = TRUE,
              !.done = IF m.inst.synced THEN @ \cup {name} ELSE @]

\* await manager.add_policy(policy), or await policy.setup(store)
MemberRegister ==
    /\ member # None
    /\ member.steps < MaxMemberOps
    /\ ~member.inst.synced
    /\ LET r == MemberSetup(member.inst, member.store)
       IN member' = [member EXCEPT !.inst = r.inst, !.store = r.store, !.steps = @ + 1]
    /\ UNCHANGED <<policies, store, uuid, call, added, run, backend, limiter, group, factory, review>>

\* policy.store = store, without setup
MemberInject ==
    /\ member # None
    /\ member.steps < MaxMemberOps
    /\ ~member.inst.attached
    /\ member' = [member EXCEPT !.inst.attached = TRUE, !.steps = @ + 1]
    /\ UNCHANGED <<policies, store, uuid, call, added, run, backend, limiter, group, factory, review>>

AddUsers(user_ids) ==
    /\ member # None
    /\ member.steps < MaxMemberOps
    /\ member' = [Stepped(member, MemberAddUsers(member.inst, member.store, user_ids),
                          "add_users")
                    EXCEPT !.standing = StandingAfter(member, user_ids, "added")]
    /\ UNCHANGED <<policies, store, uuid, call, added, run, backend, limiter, group, factory, review>>

RemoveUsers(user_ids) ==
    /\ member # None
    /\ member.steps < MaxMemberOps
    /\ member' = [Stepped(member, MemberRemoveUsers(member.inst, member.store, user_ids),
                          "remove_users")
                    EXCEPT !.standing = StandingAfter(member, user_ids, "removed")]
    /\ UNCHANGED <<policies, store, uuid, call, added, run, backend, limiter, group, factory, review>>

AddDocuments(doc_ids) ==
    /\ member # None
    /\ member.steps < MaxMemberOps
    /\ member.inst.policy.type = "access_group"
    /\ member' = Stepped(member, MemberAddDocuments(member.inst, member.store, doc_ids),
                         "add_documents")
    /\ UNCHANGED <<policies, store, uuid, call, added, run, backend, limiter, group, factory, review>>

RemoveDocuments(doc_ids) ==
    /\ member # None
    /\ member.steps < MaxMemberOps
    /\ member.inst.policy.type = "access_group"
    /\ member' = Stepped(member, MemberRemoveDocuments(member.inst, member.store, doc_ids),
                         "remove_documents")
    /\ UNCHANGED <<policies, store, uuid, call, added, run, backend, limiter, group, factory, review>>

\* result = await policy.pre_execute(ctx)
MemberCheck(user_id) ==
    /\ member # None
    /\ member.steps < MaxMemberOps
    /\ LET r == MemberPreExecute(member.inst, member.store,
                                 RequestContext(user_id, EmptyDict, None, EmptyDict))
       IN member' = [member EXCEPT
             !.inst = r.inst, !.steps = @ + 1,
             !.last = [user_id |-> user_id, outcome |-> r.outcome,
                       synced |-> member.inst.synced,
                       standing |-> member.standing[user_id],
                       governed |-> ~member.touched]]
    /\ UNCHANGED <<policies, store, uuid, call, added, run, backend, limiter, group, factory, review>>

\* The process ends and starts again: the policy is constructed from its
\* defaults; a durable store keeps its contents
MemberRestart ==
    /\ member # None
    /\ member.steps < MaxMemberOps
    /\ member' = [member EXCEPT
          !.inst = NewInstance(member.defaults),
          !.store = IF member.durable THEN @ ELSE EmptyStore,
          !.steps = @ + 1,
          !.last = None,
          !.standing = NoStanding,
          !.done = {},
          !.touched = FALSE,
          !.inherited =
              IF member.durable /\ member.inst.synced
                   /\ (member.done # {} \/ member.inherited # Nothing)
              THEN Some(StoreGet(member.store, Namespace(member.defaults), ConfigKey))
              ELSE Nothing]
    /\ UNCHANGED <<policies, store, uuid, call, added, run, backend, limiter, group, factory, review>>

------------------------------------------------------------------------------
(* PolicyFactory: the registry and create_all, as their callers use them *)

\* The classes handed to register: those of the tests, which have no
\* constructor of their own, and classes whose constructor takes keywords
PolicyClasses ==
    {PolicyClass("TestPolicy", Some("test_policy"), FALSE),
     PolicyClass("BaseTypePolicy", Some("base"), FALSE),
     PolicyClass("NamedPolicy", Some("named"), TRUE),
     PolicyClass("PlainClass", Nothing, TRUE)}
RegisteredNames == {"named", "custom"}

\* The configurations of the requests
ConfigPool ==
    {PolicyConfigSchema(<<"a">>, "custom", [check |-> "always"]),
     PolicyConfigSchema(<<"b">>, "custom", EmptyDict),
     PolicyConfigSchema(<<"p">>, "named", EmptyDict),
     PolicyConfigSchema(<<"both">>, "all_of", [policies |-> <<<<"a">>, <<"p">>>>]),
     PolicyConfigSchema(<<"a">>, "not", [policy |-> <<"a">>]),
     PolicyConfigSchema(<<"none">>, "all_of", EmptyDict)}
ConfigLists == UNION {[1..n -> ConfigPool] : n \in 0..MaxConfigs}

NewFactory ==
    [registry |-> InitialRegistry,
     registers |-> 0,
     registered |-> None,    \* history: the last register call
     created |-> None]       \* history: the last create_all call

\* PolicyFactory.register(type_name, policy_class)
FactoryRegister(type_name, policy_class) ==
    /\ factory # None
    /\ factory.registers < MaxRegisters
    /\ LET r == Register(factory.registry, type_name, policy_class)
       IN factory' = [factory EXCEPT
             !.registry = r.registry,
             !.registers = @ + 1,
             !.registered = [type_name |-> type_name, policy_class |-> policy_class,
                             before |-> factory.registry, after |-> r.registry,
                             outcome |-> r.outcome],
             !.created = None]
    /\ UNCHANGED <<policies, store, uuid, call, added, run, backend, limiter, group, member, review>>

\* PolicyFactory().create_all(configs)
FactoryCreateAll(configs) ==
    /\ factory # None
    /\ factory.created = None
    /\ LET result == CreateAllWith(factory.registry, configs, 1, <<>>, EmptyDict)
           fails == {k \in 1..Len(configs) :
                        CreateAllWith(factory.registry, SubSeq(configs, 1, k),
                                      1, <<>>, EmptyDict).raised}
       IN factory' = [factory EXCEPT
             !.created = [configs |-> configs, result |-> result,
                          \* the config at which the loop stopped, 0 if none
                          failed_at |-> IF fails = {} THEN 0
                                        ELSE CHOOSE k \in fails : \A j \in fails : k <= j]]
    /\ UNCHANGED <<policies, store, uuid, call, added, run, backend, limiter, group, member, review>>


------------------------------------------------------------------------------
(* ManualReviewPolicy: post_execute, approve, reject, get_pending *)

\* if not payload: return False
Falsy(payload) == payload = None \/ payload = EmptyDict

\* The guard of approve and reject
Markable(payload) == ~Falsy(payload)

\* ManualReviewPolicy.approve
ManualReviewApprove(p, st, review_id) ==
    LET payload == StoreGet(st, Namespace(p), review_id)
    IN IF ~Markable(payload) THEN [returned |-> FALSE, store |-> st]
       ELSE [returned |-> TRUE,
             store |-> StoreSet(st, Namespace(p), review_id,
                                DictSet(payload, "status", "approved"))]

\* ManualReviewPolicy.reject
ManualReviewReject(p, st, review_id, reason) ==
    LET payload == StoreGet(st, Namespace(p), review_id)
    IN IF ~Markable(payload) THEN [returned |-> FALSE, store |-> st]
       ELSE [returned |-> TRUE,
             store |-> StoreSet(st, Namespace(p), review_id,
                                DictSet(DictSet(payload, "status", "rejected"),
                                        "reject_reason", reason))]

\* store.list_keys(self.namespace): the keys in the order of their first
\* write, which is the order in which post_execute drew the review ids
ReviewKeys(p, st, n) ==
    SelectSeq([i \in 1..n |-> Uuid4(i)], LAMBDA k : <<Namespace(p), k>> \in DOMAIN st)

\* if entry and entry.get("status") == "pending"
AnyEntry(entry) == ~Falsy(entry)
IsPending(entry) == ~Falsy(entry) /\ DictGet(entry, "status", "") = "pending"

\* ManualReviewPolicy.get_pending
GetPending(p, st, n) ==
    SelectSeq([i \in 1..Len(ReviewKeys(p, st, n)) |->
                  StoreGet(st, Namespace(p), ReviewKeys(p, st, n)[i])],
              IsPending)

\* A policy registered on an empty store, and the calls made on it
NewReview(review_callback) ==
    [policy |-> ManualReviewPolicy(<<"mr">>, review_callback),
     store |-> EmptyStore,
     uuid |-> 0,
     steps |-> 0,
     last |-> None]        \* history: the last call, what it returned, the store before it
ReviewIds == {Uuid4(n) : n \in 1..MaxReviewOps} \cup {<<"nonexistent">>}
RejectReasons == {EmptyStr, <<"inappropriate">>}

\* result = await policy.post_execute(ctx)
ReviewPostExecute(user_id) ==
    /\ review # None
    /\ review.steps < MaxReviewOps
    /\ LET ctx == RequestContext(user_id, EmptyDict, [response |-> <<"r">>], EmptyDict)
           r == ManualReviewPostExecute(review.policy,
                                        Env(ctx, review.store, review.uuid, <<>>))
       IN review' = [review EXCEPT
             !.store = r.env.store, !.uuid = r.env.uuid, !.steps = @ + 1,
             !.last = [op |-> "post_execute", returned |-> r.result,
                       before |-> review.store, drawn |-> review.uuid]]
    /\ UNCHANGED <<policies, store, uuid, call, added, run, backend, limiter, group, member, factory>>

\* await policy.approve(review_id)
ReviewApprove(review_id) ==
    /\ review # None
    /\ review.steps < MaxReviewOps
    /\ LET r == ManualReviewApprove(review.policy, review.store, review_id)
       IN review' = [review EXCEPT
             !.store = r.store, !.steps = @ + 1,
             !.last = [op |-> "approve", review_id |-> review_id, returned |-> r.returned,
                       before |-> review.store, drawn |-> review.uuid]]
    /\ UNCHANGED <<policies, store, uuid, call, added, run, backend, limiter, group, member, factory>>

\* await policy.reject(review_id, reason)
ReviewReject(review_id, reason) ==
    /\ review # None
    /\ review.steps < MaxReviewOps
    /\ LET r == ManualReviewReject(review.policy, review.store, review_id, reason)
       IN review' = [review EXCEPT
             !.store = r.store, !.steps = @ + 1,
             !.last = [op |-> "reject", review_id |-> review_id, returned |-> r.returned,
                       before |-> review.store, drawn |-> review.uuid]]
    /\ UNCHANGED <<policies, store, uuid, call, added, run, backend, limiter, group, member, factory>>

\* await policy.get_pending()
ReviewGetPending ==
    /\ review # None
    /\ review.steps < MaxReviewOps
    /\ review' = [review EXCEPT
          !.steps = @ + 1,
          !.last = [op |-> "get_pending",
                    returned |-> GetPending(review.policy, review.store, review.uuid),
                    before |-> review.store, drawn |-> review.uuid]]
    /\ UNCHANGED <<policies, store, uuid, call, added, run, backend, limiter, group, member, factory>>

------------------------------------------------------------------------------
Init ==
    /\ policies = <<>>
    /\ store = EmptyStore
    /\ uuid = 0
    /\ call = IdleCall
    /\ added = <<>>
    /\ run = IdleRun
    /\ backend = NoBackend
    /\ limiter = None
    /\ group = None
    /\ member = None
    /\ factory = None
    /\ review = None

Next ==
    \/ \E recipe \in Recipes : AddPolicy(recipe)
    \/ \E method \in Methods : \E context \in Contexts(method) : Check(method, context)
    \/ Invoke
    \/ Return
    \/ Forget

Spec == Init /\ [][Next]_vars

\* A manager whose callers also register policies whose setup raises
NextSetup ==
    \/ \E recipe \in SetupRecipes : AddPolicy(recipe)
    \/ \E method \in Methods : \E context \in Contexts(method) : Check(method, context)
    \/ Invoke
    \/ Return
    \/ Forget

SpecSetup == Init /\ [][NextSetup]_vars

\* What the runner process reads from stdin: text that is no JSON, an object
\* without handler_path, an object with only the required fields, and the
\* requests above with every field
ToObject(input) ==
    [k \in DOMAIN input \ {f \in {"query", "messages"} : input[f] = Nothing} |->
        IF k \in {"query", "messages"} THEN Value(input[k]) ELSE input[k]]
Stdins ==
    { [json |-> FALSE] }
    \cup { [json |-> TRUE, object |-> [k \in {"type", "context", "work_dir"} |-> ToObject(i)[k]]] :
                i \in RunnerInputs }
    \cup { [json |-> TRUE, object |-> [k \in RequiredFields |-> ToObject(i)[k]]] : i \in RunnerInputs }
    \cup { [json |-> TRUE, object |-> ToObject(i)] : i \in RunnerInputs }

NextBridge ==
    \/ \E input \in RunnerInputs : \E injected \in InjectedStores : ExecuteBegin(input, injected)
    \/ ExecuteAddPolicy
    \/ ExecuteRun
    \/ \E input_json \in Stdins : Main(input_json)
    \/ MainPrint

SpecBridge == Init /\ [][NextBridge]_vars

\* A store of either kind, empty, and the operations of its callers
InitStore ==
    /\ policies = <<>>
    /\ store = EmptyStore
    /\ uuid = 0
    /\ call = IdleCall
    /\ added = <<>>
    /\ run = IdleRun
    /\ backend \in {NewBackend(kind) : kind \in StoreKinds}
    /\ limiter = None
    /\ group = None
    /\ member = None
    /\ factory = None
    /\ review = None

NextStore ==
    \/ \E c \in Callers : \E op \in StoreOps : StoreCall(c, op)
    \/ StoreResume
    \/ StoreRestart

SpecStore == InitStore /\ [][NextStore]_vars

\* A rate limiter with no stored state, on a store whose get awaits or not
InitRate ==
    /\ policies = <<>>
    /\ store = EmptyStore
    /\ uuid = 0
    /\ call = IdleCall
    /\ added = <<>>
    /\ run = IdleRun
    /\ backend = NoBackend
    /\ limiter \in {NewLimiter(m, w, s) : m \in MaxRequests, w \in WindowSeconds, s \in BOOLEAN}
    /\ group = None
    /\ member = None
    /\ factory = None
    /\ review = None

NextRate ==
    \/ Advance
    \/ \E t \in Tasks : \E user \in Users : RateRead(t, user)
    \/ RateDecide

SpecRate == InitRate /\ [][NextRate]_vars

\* A request context before any access group has been evaluated on it
InitGroup ==
    /\ policies = <<>>
    /\ store = EmptyStore
    /\ uuid = 0
    /\ call = IdleCall
    /\ added = <<>>
    /\ run = IdleRun
    /\ backend = NoBackend
    /\ limiter = None
    /\ group \in {NewGroupRun(u, prior) : u \in GroupUsers, prior \in PriorDocuments}
    /\ member = None
    /\ factory = None
    /\ review = None

NextGroup == \E p \in AccessGroups : GroupPreExecute(p)

SpecGroup == InitGroup /\ [][NextGroup]_vars

\* A membership policy just constructed, not yet registered, on an empty store
InitMember ==
    /\ policies = <<>>
    /\ store = EmptyStore
    /\ uuid = 0
    /\ call = IdleCall
    /\ added = <<>>
    /\ run = IdleRun
    /\ backend = NoBackend
    /\ limiter = None
    /\ group = None
    /\ member \in {NewMember(p, durable) : p \in MemberDefaults, durable \in BOOLEAN}
    /\ factory = None
    /\ review = None

NextMember ==
    \/ MemberRegister
    \/ MemberInject
    \/ \E user_ids \in UserIdLists : AddUsers(user_ids)
    \/ \E user_ids \in UserIdLists : RemoveUsers(user_ids)
    \/ \E doc_ids \in DocIdLists : AddDocuments(doc_ids)
    \/ \E doc_ids \in DocIdLists : RemoveDocuments(doc_ids)
    \/ \E user_id \in Users : MemberCheck(user_id)
    \/ MemberRestart

SpecMember == InitMember /\ [][NextMember]_vars

\* The factory's registry as the module defines it
InitFactory ==
    /\ policies = <<>>
    /\ store = EmptyStore
    /\ uuid = 0
    /\ call = IdleCall
    /\ added = <<>>
    /\ run = IdleRun
    /\ backend = NoBackend
    /\ limiter = None
    /\ group = None
    /\ member = None
    /\ factory = NewFactory
    /\ review = None

NextFactory ==
    \/ \E type_name \in RegisteredNames : \E policy_class \in PolicyClasses :
          FactoryRegister(type_name, policy_class)
    \/ \E configs \in ConfigLists : FactoryCreateAll(configs)

SpecFactory == InitFactory /\ [][NextFactory]_vars

\* A manual-review policy just registered
InitReview ==
    /\ policies = <<>>
    /\ store = EmptyStore
    /\ uuid = 0
    /\ call = IdleCall
    /\ added = <<>>
    /\ run = IdleRun
    /\ backend = NoBackend
    /\ limiter = None
    /\ group = None
    /\ member = None
    /\ factory = None
    /\ review \in {NewReview(cb) : cb \in ReviewCallbacks}

NextReview ==
    \/ \E user_id \in Users : ReviewPostExecute(user_id)
    \/ \E review_id \in ReviewIds : ReviewApprove(review_id)
    \/ \E review_id \in ReviewIds : \E reason \in RejectReasons : ReviewReject(review_id, reason)
    \/ ReviewGetPending

SpecReview == InitReview /\ [][NextReview]_vars

------------------------------------------------------------------------------
(* Claims about the chain evaluator *)

Invoked == call.invocations
IsPrefix(xs, ys) == Len(xs) <= Len(ys) /\ \A i \in 1..Len(xs) : xs[i] = ys[i]

\* C1: a phase call returns, unchanged, the result of the first policy in
\* registration order whose phase method returns allowed=false (a denial or a
\* pending), and no policy registered after that one is invoked in that call:
\* the policies invoked are the first ones of the chain, in order, a
\* not-allowed result is always the last one obtained, and it is what the call
\* returns.
C1_FirstNotAllowedIsReturned ==
    /\ \A i \in 1..Len(Invoked) :
          /\ Invoked[i].index = i
          /\ Invoked[i].policy = added[i].policy
          /\ ~Invoked[i].result.allowed =>
                /\ i = Len(Invoked)
                /\ call.pc = "done"
                /\ call.result = Invoked[i].result
                /\ call.trace[Len(call.trace)] = <<"return", Str(i)>>

\* C1 witness: the second policy of three stops the chain, the third is not invoked
C1_Witness ==
    /\ call.pc = "done"
    /\ Len(call.seen) = 3
    /\ Len(Invoked) = 2
    /\ Invoked[1].result.allowed
    /\ ~Invoked[2].result.allowed
    /\ call.result = Invoked[2].result

\* C2: when every registered policy allows (also when there is none), the
\* call returns an allow with an empty policy_name and pending false.
C2_AllAllowGivesAnonymousAllow ==
    (call.pc = "done" /\ \A i \in 1..Len(Invoked) : Invoked[i].result.allowed)
        => /\ call.result.allowed
           /\ call.result.policy_name = <<>>
           /\ ~call.result.pending

\* C2 witness: a chain of three policies that all allowed
C2_Witness ==
    /\ call.pc = "done"
    /\ Len(Invoked) = 3
    /\ \A i \in 1..3 : Invoked[i].result.allowed
    /\ call.result.allowed

\* C3: list_policies() and the policies of export() are the registered
\* policies in the order of the add_policy calls, policy_count is their number,
\* and an add_policy never moves or removes an earlier entry.
C3_RegistrationOrderIsKept ==
    /\ [](/\ ListPolicies = [i \in 1..Len(added) |-> added[i].policy.name]
          /\ Export.policies = [i \in 1..Len(added) |-> PolicyExport(added[i].policy)]
          /\ Export.policy_count = Len(added))
    /\ [][IsPrefix(policies, policies')]_vars

\* C3 witness: three policies registered, one of them a composite
C3_Witness ==
    /\ Len(policies) = 3
    /\ policies[2].type = "not"
    /\ Export.policy_count = 3

\* C4: in a phase call on a chain whose policies all allow, every registered
\* policy's phase method is invoked exactly once, in registration order, policy
\* i+1 is not invoked before policy i's method has returned, and what policy i
\* wrote to context.metadata is what every later policy of the call is given.
C4_SequentialWalk ==
    /\ \A j \in 1..Len(call.trace) :
          call.trace[j] = <<(IF j % 2 = 1 THEN "call" ELSE "return"), Str((j + 1) \div 2)>>
    /\ \A i \in 1..Len(Invoked) :
          Invoked[i].before.context.metadata =
              (IF i = 1 THEN call.given.metadata
               ELSE Invoked[i - 1].after.context.metadata)
    /\ (call.pc = "done" /\ call.result.allowed)
          => /\ [i \in 1..Len(Invoked) |-> Invoked[i].policy] = call.seen
             /\ Len(call.trace) = 2 * Len(call.seen)
             /\ call.context.metadata =
                   (IF Invoked = <<>> THEN call.given.metadata
                    ELSE Invoked[Len(Invoked)].after.context.metadata)

\* C4 witness: policy "a" wrote metadata["enriched"], and "b", registered
\* after it, read it and allowed
C4_Witness ==
    /\ call.pc = "done"
    /\ call.result.allowed
    /\ Len(Invoked) = 3
    /\ \E i \in 1..2 : /\ Invoked[i].policy = pa
                       /\ Invoked[i + 1].policy = pb
                       /\ "enriched" \notin DOMAIN Invoked[i].before.context.metadata
                       /\ Invoked[i + 1].result.allowed

------------------------------------------------------------------------------
(* Claims about the composites.  They are read off the invocations the     *)
(* manager made of a composite it holds: the environment the composite was *)
(* entered with, and what running its children one after the other in that *)
(* environment gives.                                                      *)

\* The children run in list order, each in the environment the one before left
RECURSIVE RunInOrder(_, _, _)
RunInOrder(children, method, e) ==
    IF children = <<>> THEN <<>>
    ELSE LET r == PolicyExecute(Head(children), method, e)
         IN <<r>> \o RunInOrder(Tail(children), method, r.env)

Least(S) == CHOOSE k \in S : \A j \in S : k <= j
Entered(inv) == Enter(inv.policy, call.method, inv.before)
ChildRuns(inv) == RunInOrder(inv.policy.policies, call.method, Entered(inv))
OwnAllow(inv) ==
    [allowed |-> TRUE, policy_name |-> inv.policy.name, reason |-> <<>>,
     pending |-> FALSE, metadata |-> EmptyDict]

\* C5: AllOf invokes its children in list order and returns, unchanged, the
\* first child result with allowed=false; no later child is invoked, so the
\* store, the context and the log are as that child left them; when every
\* child allows (also with no child) it returns an allow under its own name.
C5_AllOfShortCircuits ==
    \A i \in 1..Len(Invoked) :
        Invoked[i].policy.type = "all_of" =>
            LET inv == Invoked[i]
                ran == ChildRuns(inv)
                refused == {k \in 1..Len(ran) : ~ran[k].result.allowed}
            IN IF refused # {}
               THEN /\ inv.result = ran[Least(refused)].result
                    /\ inv.after = ran[Least(refused)].env
               ELSE /\ inv.result = OwnAllow(inv)
                    /\ inv.after = (IF ran = <<>> THEN Entered(inv) ELSE ran[Len(ran)].env)

\* C5 witness: an AllOf whose second child refused, so that its third child,
\* a manual review, wrote nothing and was not entered
C5_Witness ==
    \E i \in 1..Len(Invoked) :
        /\ Invoked[i].policy.type = "all_of"
        /\ Len(Invoked[i].policy.policies) = 3
        /\ Invoked[i].result.policy_name = <<"eng">>
        /\ ~Invoked[i].result.allowed
        /\ Len(Invoked[i].after.log) = 3
        /\ Invoked[i].after.store = Invoked[i].before.store

\* C6: AnyOf runs its children in list order and returns an allow at the first
\* child that allows, without invoking a later child; when no child allows it
\* returns the last child's result unchanged; with no child it returns a
\* denial saying that no children are configured.
C6_AnyOfFirstAllowOrLastDenial ==
    \A i \in 1..Len(Invoked) :
        Invoked[i].policy.type = "any_of" =>
            LET inv == Invoked[i]
                ran == ChildRuns(inv)
                allowing == {k \in 1..Len(ran) : ran[k].result.allowed}
            IN IF allowing # {}
               THEN /\ inv.result = OwnAllow(inv)
                    /\ inv.after = ran[Least(allowing)].env
               ELSE IF ran = <<>>
               THEN /\ inv.result =
                          [allowed |-> FALSE, policy_name |-> inv.policy.name,
                           reason |-> <<"No child policies configured">>,
                           pending |-> FALSE, metadata |-> EmptyDict]
                    /\ inv.after = Entered(inv)
               ELSE /\ inv.result = ran[Len(ran)].result
                    /\ inv.after = ran[Len(ran)].env

\* C6 witness: an AnyOf none of whose children allowed returned the pending
\* result of its last child, a manual review, with its review id
C6_Witness ==
    \E i \in 1..Len(Invoked) :
        /\ Invoked[i].policy.type = "any_of"
        /\ Invoked[i].result.pending
        /\ Invoked[i].result.policy_name = <<"mr">>
        /\ "review_id" \in DOMAIN Invoked[i].result.metadata

\* How the Not registered at position i was made: its child, and the deny
\* reason its maker configured (the empty string when none)
NotChild(i) == added[i].policy.policy
ChildResult(inv) == PolicyExecute(inv.policy.policy, call.method, Entered(inv)).result
ConfiguredReason(recipe) ==
    IF recipe.via = "ctor" THEN recipe.deny_reason
    ELSE DictGet(recipe.configs[recipe.pick].config, "deny_reason", EmptyStr)
GenericReason(child) ==
    <<"Inverted policy '">> \o child.name \o <<"' passed (expected denial)">>
OwnDenial(inv, reason) ==
    [allowed |-> FALSE, policy_name |-> inv.policy.name, reason |-> reason,
     pending |-> FALSE, metadata |-> EmptyDict]

C8_NotTurnsPendingIntoAllow ==
    \A i \in 1..Len(Invoked) :
        Invoked[i].policy.type = "not" =>
            /\ ~Invoked[i].result.pending
            /\ ChildResult(Invoked[i]).pending =>
                  /\ Invoked[i].result = OwnAllow(Invoked[i])
                  /\ call.idx > i
                  /\ call.pc = "done" => call.result # Invoked[i].result

\* C8 witness: the chain went past a Not whose child was pending and invoked
\* the policy after it
C8_Witness ==
    \E i \in 1..Len(Invoked) :
        /\ Invoked[i].policy.type = "not"
        /\ ChildResult(Invoked[i]).pending
        /\ Len(Invoked) > i

------------------------------------------------------------------------------
(* Claims about the runner *)

\* The verdict of the run's chain on the request: the pre-phase on the
\* request's user and metadata, and the post-phase after it on the handler's
\* output, evaluated on the store before the request's context was built
Requested == run.input.context
PreVerdict ==
    CheckPolicies(run.pm, PreExecute,
        Env(RequestContext(Requested.user_id, [k \in {"type"} |-> run.input.type],
                           EmptyDict, Requested.metadata),
            store, uuid, <<>>))
HandlerReturns ==
    LET handled == RunHandler(run.input) IN ~handled.raised
PostVerdict ==
    LET handled == RunHandler(run.input)
        out == IF handled.value.is_dict THEN handled.value.value
               ELSE [result |-> handled.value.value]
    IN CheckPolicies(run.pm, PostExecute,
           [PreVerdict.env EXCEPT !.context.output = out, !.log = <<>>])
Registered == run.pc = "returned" /\ Len(run.pm) = Len(run.made) /\ run.made # <<>>

\* C9: a request whose pre-phase does not allow gets a response with
\* success=false and a policy_result carrying the denying policy's name,
\* reason, pending flag and metadata, the handler is neither loaded nor
\* called, and the post-phase is not run
C9_PreDenialIsReported ==
    (Registered /\ ~PreVerdict.result.allowed) =>
        /\ ~run.output.success
        /\ run.output.policy_result =
              PolicyResultSchema(FALSE, PreVerdict.result.policy_name,
                                 PreVerdict.result.reason, PreVerdict.result.pending,
                                 PreVerdict.result.metadata)
        /\ ~run.handler_loaded
        /\ run.handler_calls = 0
        /\ ~run.post_ran

\* C10: a request whose pre-phase allows and whose handler returns normally,
\* and whose post-phase does not allow, gets a denial response (success=false
\* with the post-phase policy's result), never a success
C10_PostDenialIsReported ==
    (Registered /\ PreVerdict.result.allowed /\ HandlerReturns
        /\ ~PostVerdict.result.allowed) =>
        /\ ~run.output.success
        /\ run.output.policy_result =
              PolicyResultSchema(FALSE, PostVerdict.result.policy_name,
                                 PostVerdict.result.reason, PostVerdict.result.pending,
                                 PostVerdict.result.metadata)

\* C11: a well-formed request whose policies all allow in the pre-phase,
\* whose handler loads and returns a value, and whose policies all allow in
\* the post-phase gets success=true, the handler's raw return value as result
\* and policy_result.allowed=true
C11_SuccessIsReported ==
    (Registered /\ PreVerdict.result.allowed /\ HandlerReturns
        /\ PostVerdict.result.allowed) =>
        /\ run.output.success
        /\ run.output.result = RunHandler(run.input).value.value
        /\ run.output.policy_result # None
        /\ run.output.policy_result.allowed

\* C12: when the runner process has exited it has emitted exactly one
\* well-formed response, and its exit code is 0 exactly when that response
\* has success=true; before that it has emitted nothing and can still step
WellFormed(output) ==
    /\ DOMAIN output = {"success", "result", "error", "error_type", "policy_result"}
    /\ output.success \in BOOLEAN
    /\ output.policy_result # None =>
          DOMAIN output.policy_result =
              {"allowed", "policy_name", "reason", "pending", "metadata"}
C12_OneResponseAndExitCode ==
    run.main =>
        IF run.pc = "exited"
        THEN /\ Len(run.stdout) = 1
             /\ WellFormed(run.stdout[1])
             /\ run.exit_code \in {<<0>>, <<1>>}
             /\ run.exit_code = <<0>> <=> run.stdout[1].success
        ELSE /\ run.stdout = <<>>
             /\ run.exit_code = <<>>
             /\ ENABLED NextBridge
C12_Witness ==
    /\ run.main
    /\ run.pc = "exited"
    /\ run.stdout[1].error_type = "PolicyFactoryError"
    /\ run.exit_code = <<1>>

------------------------------------------------------------------------------
(* Claims about the Store backends *)

Caller(c) == backend.callers[c]
Returned == {c \in Callers : Caller(c).pc = "returned"}
\* A returned value against an answer: list_keys returns a list, which has
\* each key of the answer once
Matches(op, result, answer) ==
    IF op.name = "list_keys"
    THEN /\ {result[i] : i \in 1..Len(result)} = answer
         /\ Len(result) = Cardinality(answer)
    ELSE result = answer
Lookup(contents, pair) == IF pair \in DOMAIN contents THEN <<contents[pair]>> ELSE <<>>

\* C13: a step of an operation on namespace A, on either backend, leaves the
\* keys and values of every other namespace as they were, and the value the
\* operation returns is the answer on the contents of A alone
C13_NamespaceFrame ==
    [][backend'.actor \in Callers =>
            LET after == backend'.callers[backend'.actor]
            IN /\ \A other \in StoreNamespaces \ {after.op.namespace} :
                     Within(View(backend'), other) = Within(View(backend), other)
               /\ after.pc = "returned" => Matches(after.op, after.result, after.local)]_vars
C13_Witness ==
    /\ backend.kind = "sqlite"
    /\ \E c \in Returned :
          /\ Caller(c).op.name = "clear_namespace"
          /\ Caller(c).op.namespace = "ns_a"
    /\ <<"ns_b", "k1">> \in DOMAIN View(backend)

\* C14: in a run whose operations follow one another, on either backend,
\* each operation returns its answer on the effects of the operations before
\* it (get the last value set and not deleted or cleared since, or None;
\* exists whether there is one; list_keys the keys that have one), and the
\* backend's contents are those effects (so a delete of an absent key
\* changes nothing)
C14_BackendsFollowContract ==
    ~backend.overlap =>
        /\ \A c \in Returned : Matches(Caller(c).op, Caller(c).result, Caller(c).expect)
        /\ backend.queue = <<>> => View(backend) = backend.done
C14_Witness ==
    /\ ~backend.overlap
    /\ backend.ops = MaxOps
    /\ \E c, d \in Returned :
          /\ Caller(c).op.name = "get"
          /\ Caller(d).op.name = "delete"
          /\ Caller(d).op.namespace = Caller(c).op.namespace
          /\ Caller(d).op.key # Caller(c).op.key
          /\ Caller(c).result \in StoreValues

C16_ReturnedWritesAreDurable ==
    backend.kind = "sqlite" =>
        /\ LET kept == RowsView(backend.file)
                flying == InFlight(backend)
           IN \A p \in StoreNamespaces \X StoreKeys :
                 (\A w \in flying : ~Touches(w, p)) =>
                     Lookup(kept, p) = Lookup(backend.done, p)
        /\ ~backend.connected => View(backend) = RowsView(backend.file)
C16_Witness ==
    /\ backend.kind = "sqlite"
    /\ backend.restarted_at = MaxOps - 1
    /\ backend.ops = MaxOps
    /\ \E c \in Returned :
          /\ Caller(c).op.name = "get"
          /\ Caller(c).result \in StoreValues

------------------------------------------------------------------------------
(* Rate limiter claims *)

CheckOf(t) == limiter.checks[t]
Decided == {t \in Tasks : CheckOf(t).pc = "done"}
Admitted(t) == ~CheckOf(t).outcome.raised /\ CheckOf(t).outcome.value.allowed
Denied(t) == ~CheckOf(t).outcome.raised /\ ~CheckOf(t).outcome.value.allowed
Window == limiter.policy.window_seconds
Limit == limiter.policy.max_requests
\* How many of the timestamps lie in the window that ends at time t
Recent(timestamps, t) == Cardinality({i \in 1..Len(timestamps) : timestamps[i] > t - Window})
\* The users none of whose checks ran between another's read and write
Sequential == Users \ limiter.raced

C18_DenialAtLimit ==
    \A t \in Decided :
        Len(CheckOf(t).held) >= Limit =>
            /\ Denied(t)
            /\ CheckOf(t).outcome.value.metadata.remaining = 0
            /\ CheckOf(t).held # <<>> =>
                   CheckOf(t).outcome.value.metadata.reset_at = CheckOf(t).held[1] + Window

\* The stored list of a user whose checks never overlapped: the admitted
\* timestamps that lie in the window of the last admission
Kept(u) ==
    LET times == limiter.admitted[u]
    IN IF times = <<>> THEN <<>>
       ELSE SelectSeq(times, LAMBDA ts : ts > times[Len(times)] - Window)
StoredTimestamps(u) ==
    IF u \in DOMAIN limiter.stored THEN limiter.stored[u].timestamps ELSE <<>>
\* More than max_requests admissions of the user at one clock reading
OverAdmitted(u) ==
    \E i \in 1..Len(limiter.admitted[u]) :
        Cardinality({j \in 1..Len(limiter.admitted[u]) :
                        limiter.admitted[u][j] = limiter.admitted[u][i]}) > Limit

\* C19: more admissions of a user than max_requests in one window, and a
\* stored list that misses an admitted timestamp still in the window, both
\* happen, and only to a user two of whose checks ran between each other's
\* store read and store write, which takes a store whose get awaits.
C19_RaceOverAdmits ==
    \A u \in Users :
        (OverAdmitted(u) \/ StoredTimestamps(u) # Kept(u)) =>
            /\ u \in limiter.raced
            /\ limiter.suspends

\* Two checks of one user overlap when one slot remains: both are admitted,
\* and the second write replaces the first
C19_Witness ==
    \E u \in limiter.raced :
        /\ Len(limiter.admitted[u]) = Limit + 1
        /\ \A i \in 1..(Limit + 1) : limiter.admitted[u][i] > limiter.now - Window
        /\ \A t \in Tasks : CheckOf(t).pc = "done" /\ CheckOf(t).user = u /\ Admitted(t)
        /\ \E t \in Tasks : Len(CheckOf(t).held) = Limit - 1
        /\ Len(StoredTimestamps(u)) < Len(limiter.admitted[u])

------------------------------------------------------------------------------
(* Access group claims *)

NoRepeats(xs) == \A i, j \in 1..Len(xs) : xs[i] = xs[j] => i = j
Elements(xs) == {xs[i] : i \in 1..Len(xs)}
FirstAt(xs, x) == CHOOSE i \in 1..Len(xs) : xs[i] = x /\ \A j \in 1..(i - 1) : xs[j] # x
\* ys holds each element of xs once, in the order of first occurrence in xs
OrderedUnion(ys, xs) ==
    /\ NoRepeats(ys)
    /\ Elements(ys) = Elements(xs)
    /\ \A i, j \in 1..Len(ys) : i < j => FirstAt(xs, ys[i]) < FirstAt(xs, ys[j])
Resolved(metadata) ==
    IF "resolved_documents" \in DOMAIN metadata THEN metadata["resolved_documents"] ELSE <<>>
\* The documents of the groups that allowed, in the order of evaluation
RECURSIVE Granted(_)
Granted(evaluated) ==
    IF evaluated = <<>> THEN <<>>
    ELSE Granted(SubSeq(evaluated, 1, Len(evaluated) - 1))
            \o (IF evaluated[Len(evaluated)].result.allowed
                THEN evaluated[Len(evaluated)].policy.documents ELSE <<>>)

\* C20: an access-group pre-check denies a user who is not a member and
\* leaves the context as it was; for a member it allows and sets
\* "resolved_documents" to the prior list followed by the group's documents
\* not in it, in the group's order, none repeated; so the list after any
\* number of groups, the same one twice included, holds each document of the
\* prior list and of the allowing groups once, first occurrence first.
C20_DocumentsAccumulate ==
    /\ \A n \in 1..Len(group.evaluated) :
          LET ev == group.evaluated[n]
              prior == Resolved(ev.before)
              after == Resolved(ev.after)
              fresh == SubSeq(after, Len(prior) + 1, Len(after))
          IN IF group.context.user_id \notin ev.policy.users
             THEN /\ ~ev.result.allowed
                  /\ ev.after = ev.before
             ELSE /\ ev.result.allowed
                  /\ "resolved_documents" \in DOMAIN ev.after
                  /\ IsPrefix(prior, after)
                  /\ NoRepeats(after)
                  /\ Elements(fresh) = Elements(ev.policy.documents) \ Elements(prior)
                  /\ \A i, j \in 1..Len(fresh) :
                        i < j => FirstAt(ev.policy.documents, fresh[i])
                                    < FirstAt(ev.policy.documents, fresh[j])
    /\ OrderedUnion(Resolved(group.context.metadata),
                    group.initial \o Granted(group.evaluated))

\* A member's context that came with documents, after a group that repeats
\* one of its own documents and the same group a second time after another
C20_Witness ==
    /\ group.initial # <<>>
    /\ Len(group.evaluated) = 3
    /\ \A n \in 1..3 : group.evaluated[n].result.allowed
    /\ group.evaluated[1].policy = group.evaluated[3].policy
    /\ group.evaluated[1].policy # group.evaluated[2].policy
    /\ ~NoRepeats(group.evaluated[1].policy.documents)
    /\ Len(Resolved(group.context.metadata)) = 3
    /\ Elements(group.evaluated[2].policy.documents) \cap Elements(group.initial) # {}

------------------------------------------------------------------------------
(* Membership policy claims *)

StoredConfig == StoreGet(member.store, Namespace(member.defaults), ConfigKey)
LastAllowed == ~member.last.outcome.raised /\ member.last.outcome.value.allowed
LastDenied == ~member.last.outcome.raised /\ ~member.last.outcome.value.allowed
\* xs lists exactly the members of S, each once, in ascending order
SortedListOf(xs, S) ==
    /\ {xs[i] : i \in 1..Len(xs)} = S
    /\ \A i, j \in 1..Len(xs) :
          i < j => \E a, b \in 1..Len(UserOrder) : a < b /\ UserOrder[a] = xs[i] /\ UserOrder[b] = xs[j]

\* C21: once an access group has been set up, after every add_users,
\* remove_users, add_documents and remove_documents the entry "_config" of
\* its namespace is its whole current configuration: the owner, every
\* member and every document.
C21_StoreHoldsFullConfig ==
    (member.inst.policy.type = "access_group" /\ member.inst.synced) =>
        /\ StoredConfig # None
        /\ DOMAIN StoredConfig = {"owner", "users", "documents"}
        /\ StoredConfig.owner = member.inst.policy.owner
        /\ SortedListOf(StoredConfig.users, member.inst.policy.users)
        /\ StoredConfig.documents = member.inst.policy.documents

\* The four runtime calls have been made on a set-up access group, and have
\* changed both its members and its documents
C21_Witness ==
    /\ member.inst.policy.type = "access_group"
    /\ member.inst.synced
    /\ member.done = {"add_users", "remove_users", "add_documents", "remove_documents"}
    /\ member.inst.policy.users # member.defaults.users
    /\ member.inst.policy.documents # member.defaults.documents
    /\ StoredConfig.users # <<>>

\* C22: a policy constructed from its defaults after a restart and set up on
\* a store that holds the configuration written by earlier runtime calls
\* evaluates by that stored configuration, and the store still holds it.
C22_StoredConfigGoverns ==
    (member.inherited # Nothing /\ member.inst.synced /\ ~member.touched) =>
        /\ StoredConfig = Value(member.inherited)
        /\ SortedListOf(Value(member.inherited).users, member.inst.policy.users)
        /\ (member.last # None /\ ~member.last.outcome.raised) =>
              (LastAllowed <=>
                  \E i \in 1..Len(Value(member.inherited).users) :
                      Value(member.inherited).users[i] = member.last.user_id)

\* C23: on a policy that has been set up, a pre-check for a user whom the
\* last add_users or remove_users naming that user added allows, and one
\* for a user whom it removed denies.
C23_MembershipFollowsLastCall ==
    (member.last # None /\ member.last.synced) =>
        /\ member.last.standing = "added" => LastAllowed
        /\ member.last.standing = "removed" => LastDenied

\* A user removed and added again is allowed while another, a member by the
\* constructor, stays removed
C23_Witness ==
    /\ member.last # None
    /\ member.last.synced
    /\ member.last.user_id = "bob"
    /\ member.last.standing = "added"
    /\ LastAllowed
    /\ member.standing["alice"] = "removed"
    /\ "alice" \in member.defaults.users
    /\ member.done = {"add_users", "remove_users"}

------------------------------------------------------------------------------
(* Factory claims *)

Created == factory.created
\* The text occurs in the message
Contains(message, text) ==
    \E i \in 0..(Len(message) - Len(text)) : SubSeq(message, i + 1, i + Len(text)) = text
\* The names a composite configuration refers to
RefNames(config) ==
    IF config.type \in {"all_of", "any_of"} THEN DictGet(config.config, "policies", <<>>)
    ELSE IF config.type = "not" /\ "policy" \in DOMAIN config.config
    THEN <<config.config.policy>>
    ELSE <<>>
DefinedBefore(configs, i) == {configs[j].name : j \in 1..(i - 1)}
Missing(configs, i) ==
    {k \in 1..Len(RefNames(configs[i])) :
        RefNames(configs[i])[k] \notin DefinedBefore(configs, i)}
Forward(configs, i) == Missing(configs, i) # {}
LastBefore(configs, i, name) ==
    CHOOSE j \in 1..(i - 1) :
        configs[j].name = name /\ \A k \in (j + 1)..(i - 1) : configs[k].name # name
ChildrenOf(p) == IF p.type = "not" THEN <<p.policy>> ELSE p.policies

C25_FailureCarriesNameAndType ==
    (Created # None /\ Created.result.raised /\ ~Forward(Created.configs, Created.failed_at)) =>
        LET config == Created.configs[Created.failed_at]
        IN /\ Created.result.type = "PolicyFactoryError"
           /\ Contains(Created.result.message, config.name)
           /\ Contains(Created.result.message, <<config.type>>)

\* What a class makes
BuiltFrom(instance, policy_class) ==
    IF policy_class.builtin THEN instance.type = policy_class.type
    ELSE instance.type = policy_class.class

------------------------------------------------------------------------------
(* Bridge claims: configuration failures, setup, exceptions *)

\* The request's store configuration cannot be honoured, or its policy
\* configurations cannot be built
InvalidStoreConfig(r) ==
    ~r.injected /\ r.input.store.type = "sqlite" /\ r.input.store.path = EmptyStr
InvalidPolicyConfig(r) == CreateAll(r.input.policies).raised
Begins == run.input # None

Count(xs, x) == Cardinality({i \in DOMAIN xs : xs[i] = x})
InChain(chain) ==
    UNION {{SetupCalls(chain[i])[k] : k \in DOMAIN SetupCalls(chain[i])} : i \in DOMAIN chain}

\* The configurations of the request have different names, so that a name
\* stands for one instance
DistinctNames(configs) ==
    \A i, j \in DOMAIN configs : configs[i].name = configs[j].name => i = j

\* C28: setup has been invoked exactly once on every policy instance that
\* is in the chain of the bridge's manager or inside a composite of it.
C28_SetupExactlyOnce ==
    (Begins /\ DistinctNames(run.input.policies)) =>
        \A name \in InChain(run.pm) : Count(run.setups, name) = 1

------------------------------------------------------------------------------
(* Result claims *)

PendingDenies(result) == result.pending => ~result.allowed
\* A policy and the policies it holds
RECURSIVE PartsOf(_)
PartsOf(p) ==
    {p} \cup (CASE p.type \in {"all_of", "any_of"} ->
                       UNION {PartsOf(p.policies[i]) : i \in DOMAIN p.policies}
                [] p.type = "not" -> PartsOf(p.policy)
                [] OTHER -> {})

\* C29: a result that is pending is not allowed: this holds of the result
\* of every policy invocation of the manager, of the manager's verdict, and
\* of what either phase method of every registered policy and of every
\* policy inside a registered composite returns in the current state.
C29_PendingIsNotAllowed ==
    /\ \A i \in DOMAIN call.invocations : PendingDenies(call.invocations[i].result)
    /\ call.result # None => PendingDenies(call.result)
    /\ \A i \in DOMAIN policies : \A p \in PartsOf(policies[i]) :
          \A method \in Methods : \A context \in Contexts(method) :
              PendingDenies(PolicyExecute(p, method, Env(context, store, uuid, <<>>)).result)

\* The manager's verdict is the pending result a composite passed on
C29_Witness ==
    /\ call.pc = "done"
    /\ call.result # None
    /\ call.result.pending
    /\ call.idx \in DOMAIN policies
    /\ policies[call.idx].type \in {"all_of", "any_of"}

------------------------------------------------------------------------------
(* Exceptions of a policy *)

\* The pre-phase of the request on the chain the bridge registered
BridgeContext ==
    RequestContext(run.input.context.user_id, EmptyDict, EmptyDict, run.input.context.metadata)
BridgePre == CheckPolicies(run.pm, PreExecute, Env(BridgeContext, store, uuid, <<>>))
PreRaises ==
    /\ Begins
    /\ run.pc \in {"returned", "exited"}
    /\ run.made # <<>>
    /\ Len(run.pm) = Len(run.made)
    /\ Thrown(BridgePre.result)
\* The first policy of the chain whose pre_execute raises
Raiser ==
    CHOOSE i \in DOMAIN run.pm :
        /\ Thrown(CheckPolicies(SubSeq(run.pm, 1, i), PreExecute,
                                Env(BridgeContext, store, uuid, <<>>)).result)
        /\ \A j \in 1..(i - 1) :
              ~Thrown(CheckPolicies(SubSeq(run.pm, 1, j), PreExecute,
                                    Env(BridgeContext, store, uuid, <<>>)).result)
ManagerPropagates ==
    PreRaises =>
        /\ BridgePre.result =
              PolicyExecute(run.pm[Raiser], PreExecute,
                  CheckPolicies(SubSeq(run.pm, 1, Raiser - 1), PreExecute,
                                Env(BridgeContext, store, uuid, <<>>)).env).result
        /\ \A k \in DOMAIN BridgePre.env.log :
              BridgePre.env.log[k][1] \notin InChain(SubSeq(run.pm, Raiser + 1, Len(run.pm)))

\* C30: when the pre-phase method of a policy of the request's chain
\* raises, the manager's check gives that exception and invokes no later
\* policy, and the bridge's response has success=false and the exception's
\* class as error_type, after a pre-phase that ran and no handler call.
C30_PolicyExceptionBecomesFailure ==
    PreRaises =>
        /\ ManagerPropagates
        /\ ~run.output.success
        /\ run.pre_ran
        /\ run.output.error_type = BridgePre.result.type
        /\ run.handler_calls = 0

------------------------------------------------------------------------------
(* Handler failures, pending verdicts *)

\* The request is over, its configuration was valid and its pre-phase lets
\* the request through to the handler
ReachesHandler ==
    /\ Begins
    /\ run.pc \in {"returned", "exited"}
    /\ ~InvalidStoreConfig(run)
    /\ ~InvalidPolicyConfig(run)
    /\ ~Thrown(BridgePre.result)
    /\ BridgePre.result.allowed

\* C31: a request that reaches a handler that cannot be loaded is answered
\* success=false with error_type HandlerLoadError, one whose handler raises
\* with error_type ExecutionError, each with an error text; the post-phase
\* has not run.
C31_HandlerFailureIsReported ==
    (ReachesHandler /\ run.input.handler_path \in {"missing.py", "raises.py"}) =>
        /\ ~run.output.success
        /\ run.output.error_type =
              IF run.input.handler_path = "missing.py" THEN "HandlerLoadError"
              ELSE "ExecutionError"
        /\ run.output.error # EmptyStr
        /\ ~run.post_ran

\* The post-phase of the request, after a handler that returned
BridgePost ==
    CheckPolicies(run.pm, PostExecute,
        Env([BridgePre.env.context EXCEPT !.output = [result |-> <<"42">>]],
            BridgePre.env.store, BridgePre.env.uuid, <<>>))
\* The verdict that ends the request's chain evaluation short of success
Refusal ==
    IF ~BridgePre.result.allowed THEN BridgePre.result ELSE BridgePost.result
Refused ==
    /\ Begins
    /\ run.pc \in {"returned", "exited"}
    /\ ~InvalidStoreConfig(run)
    /\ ~InvalidPolicyConfig(run)
    /\ ~Thrown(BridgePre.result)
    /\ \/ ~BridgePre.result.allowed
       \/ /\ run.input.handler_path \in {"runner.py", "text.py"}
          /\ ~Thrown(BridgePost.result)
          /\ ~BridgePost.result.allowed

\* C32: the response to a request that a phase refused carries a
\* policy_result with allowed=false whose pending flag is that of the
\* verdict: true for a pending verdict, false for a plain denial.
C32_PendingIsDistinguishable ==
    Refused =>
        /\ run.output.policy_result # None
        /\ ~run.output.policy_result.allowed
        /\ run.output.policy_result.pending = Refusal.pending

------------------------------------------------------------------------------
(* The context through the phases *)

SameRequest(c, d) == c.user_id = d.user_id /\ c.input = d.input /\ c.output = d.output

\* C33: every invocation of a phase method by the manager, of a built-in
\* policy or of a composite, leaves the context's user_id, input and output
\* as they were, and so does the whole check: the context the caller gets
\* back differs from the one it gave in metadata at most.
C33_PoliciesWriteMetadataOnly ==
    /\ \A i \in DOMAIN call.invocations :
          SameRequest(call.invocations[i].before.context, call.invocations[i].after.context)
    /\ call.context # None => SameRequest(call.given, call.context)

\* A check of the post-phase is over in which a policy wrote to the metadata
C33_Witness ==
    /\ call.pc = "done"
    /\ call.context.metadata # call.given.metadata
    /\ \E i \in DOMAIN call.invocations :
          /\ call.invocations[i].policy.type \in {"access_group", "all_of", "any_of", "not"}
          /\ call.invocations[i].after.context.metadata
                 # call.invocations[i].before.context.metadata
    /\ call.given.input # EmptyDict

------------------------------------------------------------------------------
(* Namespaces *)

\* The classes that keep state in the store under their namespace
Stateful(p) == p.type \in {"access_group", "manual_review"}

\* C34: no two policy instances of the chain the bridge registered have
\* the same store namespace.
C34_NamespaceHasOneOwner ==
    \A i, j \in DOMAIN run.pm :
        (i # j /\ Stateful(run.pm[i]) /\ Stateful(run.pm[j])) =>
            Namespace(run.pm[i]) # Namespace(run.pm[j])

------------------------------------------------------------------------------
(* Manual review claims *)

ReviewNamespace == Namespace(review.policy)
\* The entries the store holds for the policy
ReviewEntries ==
    {review.store[x] : x \in {y \in DOMAIN review.store : y[1] = ReviewNamespace}}
Range(xs) == {xs[i] : i \in DOMAIN xs}

\* C35: a post_execute of a policy whose callback is absent or does not
\* approve returned a pending result whose review_id was no key of the
\* namespace before, and the store holds under it an entry of status
\* "pending"; get_pending gives exactly the entries of the namespace whose
\* status is "pending", each once.
C35_PendingReviewIsStored ==
    /\ (review.last # None /\ review.last.op = "post_execute"
            /\ review.policy.review_cb # "approve") =>
          LET result == review.last.returned
          IN /\ result.pending
             /\ ~result.allowed
             /\ "review_id" \in DOMAIN result.metadata
             /\ <<ReviewNamespace, result.metadata.review_id>> \notin DOMAIN review.last.before
             /\ StoreGet(review.store, ReviewNamespace, result.metadata.review_id) # None
             /\ StoreGet(review.store, ReviewNamespace, result.metadata.review_id).status
                    = "pending"
             /\ StoreGet(review.store, ReviewNamespace, result.metadata.review_id).review_id
                    = result.metadata.review_id
    /\ LET pending == GetPending(review.policy, review.store, review.uuid)
       IN /\ Range(pending) = {entry \in ReviewEntries : entry.status = "pending"}
          /\ Len(pending) = Cardinality(Range(pending))
          /\ (review.last # None /\ review.last.op = "get_pending") =>
                review.last.returned = pending

\* get_pending has just returned one of two reviews, the other one having
\* been approved or rejected
C35_Witness ==
    /\ review.last # None
    /\ review.last.op = "get_pending"
    /\ Len(review.last.returned) = 1
    /\ Cardinality(ReviewEntries) = 2
    /\ review.policy.review_cb # "approve"

\* C40: approve and reject return false and leave the store as it was for
\* a review id the namespace does not hold; for an entry that is pending
\* they return true and set its status; an entry that is approved or
\* rejected already is left as it was.
C40_OnlyPendingEntriesMove ==
    (review.last # None /\ review.last.op \in {"approve", "reject"}) =>
        LET entry == StoreGet(review.last.before, ReviewNamespace, review.last.review_id)
            now == StoreGet(review.store, ReviewNamespace, review.last.review_id)
        IN IF Falsy(entry)
           THEN ~review.last.returned /\ review.store = review.last.before
           ELSE IF entry.status = "pending"
           THEN /\ review.last.returned
                /\ now.status = (IF review.last.op = "approve" THEN "approved" ELSE "rejected")
           ELSE /\ ~review.last.returned
                /\ review.store = review.last.before

------------------------------------------------------------------------------
(* Rate limiter: what a pre-check touches *)

\* C36: a pre-check of user u leaves the stored entry of every other user
\* as it was and adds no entry but u's; a pre-check that denies leaves the
\* whole store as it was and puts no remaining count into the metadata.
C36_CheckTouchesOwnEntryOnly ==
    [][\A t \in Tasks :
          (limiter.checks[t].pc = "read" /\ limiter'.checks[t].pc = "done") =>
              LET u == limiter.checks[t].user
                  outcome == limiter'.checks[t].outcome
              IN /\ \A v \in Users \ {u} :
                        DictGet(limiter'.stored, v, None) = DictGet(limiter.stored, v, None)
                 /\ DOMAIN limiter'.stored \subseteq (DOMAIN limiter.stored) \cup {u}
                 /\ (~outcome.raised /\ ~outcome.value.allowed) =>
                        /\ limiter'.stored = limiter.stored
                        /\ limiter'.checks[t].remaining = <<>>]_vars

\* A user's check was denied while another user has stored timestamps and
\* was admitted after it as well
C36_Witness ==
    \E t \in Tasks : \E o \in Tasks \ {t} :
        /\ t \in Decided
        /\ Denied(t)
        /\ o \in Decided
        /\ Admitted(o)
        /\ CheckOf(o).user # CheckOf(t).user
        /\ CheckOf(o).now >= CheckOf(t).now
        /\ CheckOf(t).user \in DOMAIN limiter.stored
        /\ CheckOf(o).user \in DOMAIN limiter.stored

------------------------------------------------------------------------------
(* add_policy of a policy whose setup raises *)

SetupRaised(a) == "raised" \in DOMAIN a
\* What the manager answers to each caller's check in the current state
Evaluation(chain, st, n) ==
    [method \in Methods |->
        [context \in Contexts(method) |->
            LET r == CheckPolicies(chain, method, Env(context, st, n, <<>>))
            IN [result |-> r.result, context |-> r.env.context]]]

\* C37: an add_policy whose setup raised leaves the chain as it was:
\* list_policies(), export() and the result of every check a caller can
\* make next are those of before the call.
C37_FailedSetupRegistersNothing ==
    [][(Len(added') = Len(added) + 1 /\ SetupRaised(added'[Len(added')])) =>
          /\ policies' = policies
          /\ ListPolicies' = ListPolicies
          /\ Export' = Export
          /\ Evaluation(policies', store', uuid') = Evaluation(policies, store, uuid)]_vars

\* The setup of a composite raised after a child had written to the store a
\* registered policy of the same name had written to; a check followed
C37_Witness ==
    /\ \E i \in DOMAIN added :
          /\ SetupRaised(added[i])
          /\ added[i].policy.type = "all_of"
          /\ \E j \in 1..(i - 1) : added[j].policy = peng
    /\ StoreGet(store, Namespace(peng), <<"_config">>) # None
    /\ StoreGet(store, Namespace(peng), <<"_config">>).users = <<"bob">>
    /\ call.pc = "done"
    /\ Len(policies) >= 1

------------------------------------------------------------------------------
(* Invocations of the phase methods on the chain the bridge registered *)

PhaseCalls(log, name, method) == Count(log, <<name, method>>)
PostReached == ~Thrown(BridgePre.result) /\ BridgePre.result.allowed

------------------------------------------------------------------------------
(* The store of a bridge request when execute has returned *)

StoreCreated(r) == ~r.injected /\ ~InvalidStoreConfig(r)
Closable(r) == r.store_kind = "sqlite"
\* The ways a request leaves execute
FactoryFailed == ~InvalidStoreConfig(run) /\ InvalidPolicyConfig(run)
Unexpected ==
    /\ ~run.output.success
    /\ run.output.error_type \notin {"PolicyFactoryError", "HandlerLoadError", "ExecutionError", "PolicyDenied"}

\* C39: when execute has returned, a store with a close method that the
\* bridge created from the store configuration has been closed, whatever
\* the way the request ended, and a store the caller injected has not.
C39_OwnedStoreIsClosed ==
    (Begins /\ run.pc \in {"returned", "exited"}) =>
        /\ (StoreCreated(run) /\ Closable(run)) => run.closed
        /\ run.injected => ~run.closed

\* A request on a SQLite store of the bridge has ended with an unexpected
\* exception, after its policies were registered
C39_Witness ==
    /\ Begins
    /\ run.pc = "returned"
    /\ StoreCreated(run)
    /\ Closable(run)
    /\ Len(run.pm) >= 1
    /\ Unexpected
    /\ run.closed

====
